---------------------------- MODULE Spec2Model ----------------------------
(***************************************************************************)
(* A model of fastbotty: the Telegram transport with its retry loop        *)
(* (core/bot.py), the endpoint dispatcher, the keyboard builders and the   *)
(* webhook handler (server/routes.py), and the text sanitizer              *)
(* (utils/escape.py).                                                      *)
(*                                                                         *)
(* Ten specifications share the module:                                    *)
(*   SpecBot       one call of a TelegramBot method, request by request    *)
(*   SpecDispatch  one endpoint request, bot call by bot call, over the    *)
(*                 payloads that decide the message kind                   *)
(*   SpecFanout    the same handler over the requests and endpoints that   *)
(*                 decide the chat list                                    *)
(*   SpecKeyboard  build_inline_keyboard applied to bounded keyboards      *)
(*   SpecButtons   build_inline_keyboard applied to one row of buttons of  *)
(*                 every action shape                                      *)
(*   SpecServer    one inbound request: an endpoint request with its       *)
(*                 API key, field_map, template, formatter and keyboard,   *)
(*                 or a Telegram update posted to the webhook              *)
(*   SpecMarkup    one endpoint request over the endpoints that configure  *)
(*                 inline buttons, reply keyboards, removals, force        *)
(*                 replies                                                 *)
(*   SpecInvoice   one request to an invoice endpoint, over literal and    *)
(*                 templated amounts                                       *)
(*   SpecEscape    sanitize_text applied to bounded texts                  *)
(*   SpecConcurrent  endpoint requests in flight together on the event     *)
(*                 loop, sharing one formatter                             *)
(* Python strings that the code inspects character by character are        *)
(* sequences of one-character strings; None is a sentinel value.           *)
(***************************************************************************)
EXTENDS Integers, Sequences, FiniteSets, TLC

VARIABLES
    \* ---- TelegramBot (core/bot.py)
    test_mode,      \* TelegramBot.test_mode
    bpc,            \* position of the bot call: idle, attempting, returned, raised
    method,         \* Bot API method of the call in progress
    max_retries_arg,\* max_retries as the caller of a send_* method passed it
    max_retries,    \* max_retries argument of _send_with_retry
    attempt,        \* loop variable of `for attempt in range(max_retries)`
    log,            \* HTTP requests issued so far: attempt, outcome, sleep that followed
    ret,            \* what the call returned or raised
    \* ---- endpoint handler (server/routes.py, create_endpoint_handler.handler)
    endpoint_config,\* the EndpointConfig the handler closes over
    api_key,        \* config.server.api_key
    x_api_key,      \* the request's X-API-Key header
    payload,        \* the inbound JSON payload
    rendered,       \* what the endpoint's formatter yields for the payload
    hpc,            \* position of the handler: idle, sending, done
    target_chat_ids,\* resolved chat list
    formatted_message,
    parse_mode,
    reply_markup,   \* markup built before the fan-out
    chat_idx,       \* index (1-based) of the chat the loop is at
    pre_sent,       \* the invoice pre-step of the current chat has been awaited
    calls,          \* bot methods awaited so far, with their arguments
    results,        \* the handler's `results` list
    response,       \* the HTTP response of the handler
    \* ---- build_inline_keyboard (server/routes.py)
    buttons,        \* argument: rows of ButtonConfig
    context,        \* argument `payload`: the template context, or None
    kpc,            \* idle, done
    kresult,        \* built markup, None, or the raised ValueError
    \* ---- webhook handler (server/routes.py, setup_webhook_handler.webhook_handler)
    update,         \* the body of the request, as request.json() sees it
    commands,       \* config.commands
    callbacks,      \* config.callbacks
    wpc,            \* idle, answering, forwarding, replying, done
    matched,        \* the CallbackConfig or CommandConfig that matched, or none
    wcalls,         \* outbound calls awaited so far
    wresponse,      \* what the handler returned
    \* ---- sanitize_text (utils/escape.py)
    raw_text,       \* argument text
    escape_mode,    \* argument parse_mode
    epc,            \* idle, done
    escaped_text,   \* the string returned
    \* ---- requests in flight on one event loop, one shared formatter
    formatter_labels,\* formatter.labels of the formatter instance
    reqs            \* per request: its endpoint's labels, its position, what format saw

botVars == <<test_mode, bpc, method, max_retries_arg, max_retries, attempt, log, ret>>
handlerVars == <<endpoint_config, api_key, x_api_key, payload, rendered, hpc,
                 target_chat_ids, formatted_message, parse_mode, reply_markup,
                 chat_idx, pre_sent, calls, results, response>>
keyboardVars == <<buttons, context, kpc, kresult>>
webhookVars == <<update, commands, callbacks, wpc, matched, wcalls, wresponse>>
escapeVars == <<raw_text, escape_mode, epc, escaped_text>>
formatterVars == <<formatter_labels, reqs>>
vars == <<botVars, handlerVars, keyboardVars, webhookVars, escapeVars, formatterVars>>

None == "None"

Last(s) == s[Len(s)]

RECURSIVE Pow2(_)
Pow2(n) == IF n = 0 THEN 1 ELSE 2 * Pow2(n - 1)

(***************************************************************************)
(* Bounds                                                                  *)
(***************************************************************************)
MaxRetriesBound == 3    \* max_retries ranges over 1..MaxRetriesBound
MaxRows == 2            \* rows of a keyboard
MaxRowLen == 2          \* buttons of a row
MaxTextLen == 2         \* characters of a text given to sanitize_text
MaxInFlight == 2        \* requests handled at once on the event loop

(***************************************************************************)
(* TelegramBot                                                             *)
(***************************************************************************)
DefaultMaxRetries == 3
AdminMaxRetries == 1
\* max_retries_arg when the caller leaves the parameter out
Omitted == 0

SendMethods == {"sendMessage", "sendPhoto", "sendMediaGroup", "sendDocument",
                "sendVideo", "sendAudio", "sendVoice", "sendLocation",
                "sendInvoice"}
RetryAdminMethods == {"setWebhook", "deleteWebhook", "answerCallbackQuery"}

\* A Bot API response body {"ok": .., "result": ..}: result is one message
\* object (is_list = FALSE, ids = <<message_id>>) or a list of them.
MsgIds == {7, 9}
NoBody == [is_list |-> FALSE, ids |-> <<>>]
MessageBody(m) == [is_list |-> FALSE, ids |-> <<m>>]
GroupBody(ms) == [is_list |-> TRUE, ids |-> ms]

\* Bodies the remote API may answer a method with.
RemoteBodies(m) ==
    IF m = "sendMediaGroup"
    THEN {GroupBody(<<a, b>>) : a \in MsgIds, b \in MsgIds}
    ELSE {MessageBody(a) : a \in MsgIds}

\* The canned test-mode result of a send_* method.
CannedBody(m) ==
    IF m = "sendMediaGroup" THEN GroupBody(<<0>>) ELSE MessageBody(0)

\* Outcome of one HTTP request: a response (status, Retry-After header,
\* description, body) or an aiohttp.ClientError (status NetworkError), which
\* is also what response.json() raises on a body that is not JSON.
NetworkError == 0
NoHeader == -1
NoDescription == "<absent>"
NoErr == "<none>"

Response(st, ra, d, b) ==
    [status |-> st, retry_after |-> ra, description |-> d, body |-> b, err |-> NoErr]
ClientError(e) ==
    [status |-> NetworkError, retry_after |-> NoHeader,
     description |-> NoDescription, body |-> NoBody, err |-> e]

Outcomes(m) ==
    {Response(200, NoHeader, NoDescription, b) : b \in RemoteBodies(m)}
    \cup {Response(429, ra, "Too Many Requests", NoBody) : ra \in {NoHeader, 5}}
    \cup {Response(400, NoHeader, d, NoBody) : d \in {NoDescription, "chat not found"}}
    \cup {ClientError(e) : e \in {"timeout", "refused"}}

\* What a call returns or raises.
NoSleep == -1
NoRet == [kind |-> "none", body |-> NoBody, msg |-> ""]
Returned(b) == [kind |-> "body", body |-> b, msg |-> ""]
\* Exception(f"Failed after {max_retries} attempts: {error_msg}")
RaisedSendFailed(d) == [kind |-> "Exception:Failed after", body |-> NoBody, msg |-> d]
\* the aiohttp.ClientError re-raised by the bare `raise`
RaisedClientError(e) == [kind |-> "ClientError", body |-> NoBody, msg |-> e]
\* Exception(f"Failed to send message after {max_retries} attempts")
RaisedLoopExhausted == [kind |-> "Exception:Failed to send", body |-> NoBody, msg |-> ""]

\* The end of one iteration of `for attempt in range(max_retries)` that
\* neither returned nor raised: the next iteration, or the raise after the loop.
LoopNext(n, mr, slept) ==
    IF n + 1 < mr
    THEN [pc |-> "attempting", attempt |-> n + 1, slept |-> slept, ret |-> NoRet]
    ELSE [pc |-> "raised", attempt |-> n + 1, slept |-> slept, ret |-> RaisedLoopExhausted]

\* as RateLimited, repeating the iteration instead of taking the next one
RateLimitedSameAttempt(n, mr, o) ==
    [pc |-> "attempting", attempt |-> n,
     slept |-> IF o.retry_after = NoHeader THEN 1 ELSE o.retry_after,
     ret |-> NoRet]

\* `continue` after a 429: sleep Retry-After (default 1), next iteration.
RateLimited(n, mr, o) ==
    LoopNext(n, mr, IF o.retry_after = NoHeader THEN 1 ELSE o.retry_after)

\* as ApiError with the bound of the retry test off by one
ApiErrorOffByOne(n, mr, o) ==
    IF n < mr
    THEN LoopNext(n, mr, Pow2(n))
    ELSE [pc |-> "raised", attempt |-> n, slept |-> NoSleep,
          ret |-> RaisedSendFailed(o.description)]

\* other non-200 status
ApiError(n, mr, o) ==
    LET error_msg == IF o.description = NoDescription
                     THEN "Unknown error" ELSE o.description
    IN IF n < mr - 1
       THEN LoopNext(n, mr, Pow2(n))
       ELSE [pc |-> "raised", attempt |-> n, slept |-> NoSleep,
             ret |-> RaisedSendFailed(error_msg)]

\* as NetworkFailure, raising a wrapped error instead of the bare `raise`
NetworkFailureWrapped(n, mr, o) ==
    IF n < mr - 1
    THEN LoopNext(n, mr, Pow2(n))
    ELSE [pc |-> "raised", attempt |-> n, slept |-> NoSleep,
          ret |-> RaisedSendFailed(o.err)]

\* except aiohttp.ClientError
NetworkFailure(n, mr, o) ==
    IF n < mr - 1
    THEN LoopNext(n, mr, Pow2(n))
    ELSE [pc |-> "raised", attempt |-> n, slept |-> NoSleep,
          ret |-> RaisedClientError(o.err)]

\* One iteration of the loop of _send_with_retry at attempt n, outcome o.
RetryStep(n, mr, o) ==
    IF o.status = NetworkError THEN NetworkFailure(n, mr, o)
    ELSE IF o.status = 200
    THEN [pc |-> "returned", attempt |-> n, slept |-> NoSleep, ret |-> Returned(o.body)]
    ELSE IF o.status = 429 THEN RateLimited(n, mr, o)
    ELSE ApiError(n, mr, o)

\* send_message .. send_invoice: canned result in test mode, else the retry loop.
CallSend ==
    /\ bpc = "idle"
    /\ \E m \in SendMethods, arg \in {Omitted} \cup 1..MaxRetriesBound :
         /\ method' = m
         /\ max_retries_arg' = arg
         /\ max_retries' = IF arg = Omitted THEN DefaultMaxRetries ELSE arg
         /\ IF test_mode
            THEN bpc' = "returned" /\ ret' = Returned(CannedBody(m))
            ELSE bpc' = "attempting" /\ ret' = NoRet
    /\ attempt' = 0
    /\ UNCHANGED <<test_mode, log, handlerVars, keyboardVars, escapeVars,
                   formatterVars, webhookVars>>

\* as CallAdmin, entering the retry loop with the default of the send methods
CallAdminDefault ==
    /\ bpc = "idle"
    /\ \E m \in RetryAdminMethods : method' = m
    /\ max_retries' = DefaultMaxRetries
    /\ bpc' = "attempting"
    /\ attempt' = 0
    /\ UNCHANGED <<test_mode, max_retries_arg, log, ret, handlerVars,
                   keyboardVars, escapeVars, formatterVars,
                   webhookVars>>

\* set_webhook, delete_webhook, answer_callback_query: straight into
\* _send_with_retry(.., 1); test_mode is not consulted.
CallAdmin ==
    /\ bpc = "idle"
    /\ \E m \in RetryAdminMethods : method' = m
    /\ max_retries' = AdminMaxRetries
    /\ bpc' = "attempting"
    /\ attempt' = 0
    /\ UNCHANGED <<test_mode, max_retries_arg, log, ret, handlerVars,
                   keyboardVars, escapeVars, formatterVars,
                   webhookVars>>

\* get_webhook_info: one GET outside _send_with_retry; the body is returned
\* whatever the status, a ClientError propagates. test_mode is not consulted.
GetWebhookInfo ==
    /\ bpc = "idle"
    /\ method' = "getWebhookInfo"
    /\ \E o \in Outcomes("getWebhookInfo") :
         /\ log' = Append(log, [attempt |-> 0, out |-> o, slept |-> NoSleep])
         /\ IF o.status = NetworkError
            THEN bpc' = "raised" /\ ret' = RaisedClientError(o.err)
            ELSE bpc' = "returned" /\ ret' = Returned(o.body)
    /\ UNCHANGED <<test_mode, max_retries_arg, max_retries, attempt, handlerVars,
                   keyboardVars, escapeVars, formatterVars, webhookVars>>

\* One iteration of _send_with_retry: POST, outcome, sleep, loop control.
Attempt ==
    /\ bpc = "attempting"
    /\ \E o \in Outcomes(method) :
         LET s == RetryStep(attempt, max_retries, o)
         IN /\ log' = Append(log, [attempt |-> attempt, out |-> o, slept |-> s.slept])
            /\ bpc' = s.pc
            /\ attempt' = s.attempt
            /\ ret' = s.ret
    /\ UNCHANGED <<test_mode, method, max_retries_arg, max_retries, handlerVars,
                   keyboardVars, escapeVars, formatterVars, webhookVars>>

(***************************************************************************)
(* JSON values (payloads, template contexts): tagged records.  An object   *)
(* is a function over the keys the model knows, JAbsent at keys it lacks.  *)
(***************************************************************************)
JAbsent == [t |-> "absent", v |-> <<>>]
JNull == [t |-> "null", v |-> <<>>]
JStr(x) == [t |-> "str", v |-> x]
JNum(x) == [t |-> "num", v |-> x]
JList(x) == [t |-> "list", v |-> x]
JObj(x) == [t |-> "obj", v |-> x]

\* Python truthiness of a JSON value
Truthy(j) ==
    CASE j.t = "str" -> j.v # ""
      [] j.t = "num" -> j.v # 0
      [] j.t = "list" -> j.v # <<>>
      [] j.t = "obj" -> \E k \in DOMAIN j.v : j.v[k].t # "absent"
      [] OTHER -> FALSE

\* dict.get(key): None when the key is missing
DictGet(j, key) ==
    IF key \in DOMAIN j.v /\ j.v[key].t # "absent" THEN j.v[key] ELSE JNull

\* dict.get(key, default)
DictGetDefault(j, key, default) ==
    IF key \in DOMAIN j.v /\ j.v[key].t # "absent" THEN j.v[key] ELSE default

(***************************************************************************)
(* Templates.  A template string is literal text or one placeholder; the   *)
(* engine renders a placeholder to the context's value and, when the name  *)
(* is undefined, to "" or to the default the placeholder gives.            *)
(***************************************************************************)
TemplateVar(value) ==
    CASE value = "{{first_name}}" -> "first_name"
      [] value = "{{amount}}" -> "amount"
      [] value = "{{amount|default('250')}}" -> "amount"
      [] OTHER -> None

\* Template(value).render(**payload)
JinjaRender(value, ctx) ==
    IF TemplateVar(value) = None THEN value
    ELSE LET j == DictGet(ctx, TemplateVar(value))
         IN IF j.t = "str" THEN j.v
            ELSE IF value = "{{amount|default('250')}}" THEN "250" ELSE ""

\* _render_template: rendered only when the payload is truthy
RenderTemplate(value, ctx) ==
    IF Truthy(ctx) THEN JinjaRender(value, ctx) ELSE value

(***************************************************************************)
(* build_inline_keyboard                                                   *)
(***************************************************************************)
Absent == "<absent>"
PyTrue == "True"
PyFalse == "False"

\* ButtonConfig: every optional field None by default.  web_app, login_url,
\* switch_inline_query_chosen_chat and copy_text stand for their objects by
\* the one string they carry (url, url, query, text).
Button(text) ==
    [text |-> text, url |-> None, callback_data |-> None, web_app |-> None,
     login_url |-> None, switch_inline_query |-> None,
     switch_inline_query_current_chat |-> None,
     switch_inline_query_chosen_chat |-> None, copy_text |-> None,
     callback_game |-> None, pay |-> None]

ActionFields == {"url", "callback_data", "web_app", "login_url",
                 "switch_inline_query", "switch_inline_query_current_chat",
                 "switch_inline_query_chosen_chat", "copy_text",
                 "callback_game", "pay"}

PayButton == [Button("Pay XTR") EXCEPT !.pay = PyTrue]
GameButton == [Button("Play") EXCEPT !.callback_game = PyTrue]
UrlButton == [Button("Open") EXCEPT !.url = "https://example.com"]

\* truthiness of an Optional[str] / Optional[bool] field
StrTruthy(x) == x # None /\ x # ""
BoolTruthy(x) == x = PyTrue

\* What a build returns or raises.
NoMarkup == [type |-> "None", rows |-> <<>>, msg |-> ""]
InlineMarkup(rows) == [type |-> "inline_keyboard", rows |-> rows, msg |-> ""]
ValueError(msg) == [type |-> "ValueError", rows |-> <<>>, msg |-> msg]

PayMsg == "Pay button must be the first button in the first row"
GameMsg == "Callback game button must be the first button in the first row"

\* <<row, index>> of every button (1-based)
Positions(bs) == UNION {{<<r, i>> : i \in 1..Len(bs[r])} : r \in 1..Len(bs)}

\* row-major order of the nested loops
Before(p, q) == p[1] < q[1] \/ (p[1] = q[1] /\ p[2] < q[2])

\* a button the scan of lines 135-142 raises at
Offending(bs, p) ==
    /\ p # <<1, 1>>
    /\ BoolTruthy(bs[p[1]][p[2]].pay) \/ BoolTruthy(bs[p[1]][p[2]].callback_game)

\* Lines 127-142: None, or the message of the ValueError raised.  The scan
\* runs only when the first row is non-empty and its first button is neither
\* a pay nor a callback_game button.
ValidatePlacement(bs) ==
    IF bs # <<>> /\ bs[1] # <<>>
       /\ ~(BoolTruthy(bs[1][1].pay) \/ BoolTruthy(bs[1][1].callback_game))
    THEN LET bad == {p \in Positions(bs) : Offending(bs, p)}
         IN IF bad = {} THEN None
            ELSE LET p == CHOOSE q \in bad : \A o \in bad : o = q \/ Before(q, o)
                 IN IF BoolTruthy(bs[p[1]][p[2]].pay) THEN PayMsg ELSE GameMsg
    ELSE None

\* text.replace(STAR + VS16, STAR).replace("XTR", STAR) on the texts of the model
ReplaceStars(text) ==
    CASE text = "Pay XTR" -> "Pay STAR"
      [] text = "Pay STAR-VS16" -> "Pay STAR"
      [] OTHER -> text

\* as ActionOf, testing the switch_inline_query fields by truthiness
ActionOfTruthy(btn) ==
    IF StrTruthy(btn.url) THEN "url"
    ELSE IF StrTruthy(btn.callback_data) THEN "callback_data"
    ELSE IF btn.web_app # None THEN "web_app"
    ELSE IF btn.login_url # None THEN "login_url"
    ELSE IF StrTruthy(btn.switch_inline_query) THEN "switch_inline_query"
    ELSE IF StrTruthy(btn.switch_inline_query_current_chat)
         THEN "switch_inline_query_current_chat"
    ELSE IF btn.switch_inline_query_chosen_chat # None
         THEN "switch_inline_query_chosen_chat"
    ELSE IF btn.copy_text # None THEN "copy_text"
    ELSE IF BoolTruthy(btn.callback_game) THEN "callback_game"
    ELSE IF BoolTruthy(btn.pay) THEN "pay"
    ELSE None

\* the if / elif chain of lines 159-215: the one action field attached
ActionOf(btn) ==
    IF StrTruthy(btn.url) THEN "url"
    ELSE IF StrTruthy(btn.callback_data) THEN "callback_data"
    ELSE IF btn.web_app # None THEN "web_app"
    ELSE IF btn.login_url # None THEN "login_url"
    ELSE IF btn.switch_inline_query # None THEN "switch_inline_query"
    ELSE IF btn.switch_inline_query_current_chat # None
         THEN "switch_inline_query_current_chat"
    ELSE IF btn.switch_inline_query_chosen_chat # None
         THEN "switch_inline_query_chosen_chat"
    ELSE IF btn.copy_text # None THEN "copy_text"
    ELSE IF BoolTruthy(btn.callback_game) THEN "callback_game"
    ELSE IF BoolTruthy(btn.pay) THEN "pay"
    ELSE None

ActionValue(btn, f, ctx) ==
    CASE f = "callback_game" -> "{}"
      [] f = "pay" -> PyTrue
      [] OTHER -> RenderTemplate(btn[f], ctx)

\* one output button: its text and the action fields, Absent when not set
BuildButton(btn, ctx) ==
    LET rendered_text == RenderTemplate(btn.text, ctx)
        text == IF BoolTruthy(btn.pay) THEN ReplaceStars(rendered_text)
                ELSE rendered_text
    IN [f \in ActionFields \cup {"text"} |->
          IF f = "text" THEN text
          ELSE IF f = ActionOf(btn) THEN ActionValue(btn, f, ctx)
          ELSE Absent]

BuildInlineKeyboard(bs, ctx) ==
    IF bs = <<>> THEN NoMarkup
    ELSE IF ValidatePlacement(bs) # None THEN ValueError(ValidatePlacement(bs))
    ELSE InlineMarkup([r \in 1..Len(bs) |->
                          [i \in 1..Len(bs[r]) |-> BuildButton(bs[r][i], ctx)]])

ButtonConfigs == {PayButton, GameButton, UrlButton}

Rows(n) == UNION {[1..k -> ButtonConfigs] : k \in 0..n}
Keyboards == UNION {[1..k -> Rows(MaxRowLen)] : k \in 0..MaxRows}

\* no context, the empty object {}, and an object with a first_name
Contexts == {JNull, JObj([first_name |-> JAbsent, amount |-> JAbsent]),
             JObj([first_name |-> JStr("Amy"), amount |-> JAbsent])}

(***************************************************************************)
(* Reply keyboards: build_reply_keyboard_markup, build_reply_keyboard_remove, *)
(* build_force_reply.  A markup the endpoint does not configure is Unset;   *)
(* an optional field of the output the code leaves out is Absent.          *)
(***************************************************************************)
Unset == [set |-> FALSE]

\* ReplyKeyboardMarkup whose cells are strings, every optional field unset
ReplyKeyboardMarkup(keyboard) == [set |-> TRUE, keyboard |-> keyboard]
\* ReplyKeyboardRemove(remove_keyboard: bool = True, selective: bool | None)
ReplyKeyboardRemove(remove_keyboard, selective) ==
    [set |-> TRUE, remove_keyboard |-> remove_keyboard, selective |-> selective]
\* ForceReply(force_reply: bool = True, input_field_placeholder, selective)
ForceReply(force_reply, input_field_placeholder, selective) ==
    [set |-> TRUE, force_reply |-> force_reply,
     input_field_placeholder |-> input_field_placeholder, selective |-> selective]

build_reply_keyboard_markup(cfg, ctx) ==
    [type |-> "keyboard", msg |-> "",
     rows |-> [r \in 1..Len(cfg.keyboard) |->
                 [i \in 1..Len(cfg.keyboard[r]) |->
                    [text |-> RenderTemplate(cfg.keyboard[r][i], ctx)]]]]

build_reply_keyboard_remove(cfg) ==
    [type |-> "remove_keyboard", rows |-> <<>>, msg |-> "",
     remove_keyboard |-> cfg.remove_keyboard,
     selective |-> IF cfg.selective # None THEN cfg.selective ELSE Absent]

build_force_reply(cfg, ctx) ==
    [type |-> "force_reply", rows |-> <<>>, msg |-> "",
     force_reply |-> cfg.force_reply,
     input_field_placeholder |->
        IF cfg.input_field_placeholder # None
        THEN RenderTemplate(cfg.input_field_placeholder, ctx) ELSE Absent,
     selective |-> IF cfg.selective # None THEN cfg.selective ELSE Absent]

Build ==
    /\ kpc = "idle"
    /\ kresult' = BuildInlineKeyboard(buttons, context)
    /\ kpc' = "done"
    /\ UNCHANGED <<buttons, context, botVars, handlerVars, webhookVars,
                   escapeVars, formatterVars>>

(***************************************************************************)
(* Endpoint dispatcher: create_endpoint_handler (server/routes.py)         *)
(***************************************************************************)
\* Text bodies are sequences of characters.
Whitespace == {" ", "\t", "\n"}

RECURSIVE LStrip(_)
LStrip(t) == IF t # <<>> /\ Head(t) \in Whitespace THEN LStrip(Tail(t)) ELSE t

RECURSIVE RStrip(_)
RStrip(t) ==
    IF t # <<>> /\ Last(t) \in Whitespace
    THEN RStrip(SubSeq(t, 1, Len(t) - 1)) ELSE t

\* str.strip()
Strip(t) == RStrip(LStrip(t))

\* EndpointConfig.  field_map maps a logical field to the keys of its dot
\* path, <<>> when the field is not remapped.
PayloadFields == {"chat_id", "chat_ids", "parse_mode", "image_url", "image_urls",
                  "document_url", "video_url", "audio_url", "voice_url",
                  "location", "amount"}
NoFieldMap == [f \in PayloadFields |-> <<>>]
NoInvoice == [set |-> FALSE, prices |-> <<>>, max_tip_amount |-> JNull,
              suggested_tip_amounts |-> <<>>]
Invoice(prices, tip, tips) ==
    [set |-> TRUE, prices |-> prices, max_tip_amount |-> tip,
     suggested_tip_amounts |-> tips]
Endpoint(chat_id, chat_ids) ==
    [chat_id |-> chat_id, chat_ids |-> chat_ids, formatter |-> "plain",
     template |-> None, parse_mode |-> None, field_map |-> NoFieldMap,
     buttons |-> <<>>, reply_keyboard |-> Unset,
     reply_keyboard_remove |-> Unset, force_reply |-> Unset,
     invoice |-> NoInvoice]
NoEndpoint == Endpoint(None, <<>>)

\* as get_chat_ids, with chat_id put after chat_ids
get_chat_ids_appended(ec) ==
    IF StrTruthy(ec.chat_id) THEN ec.chat_ids \o <<ec.chat_id>> ELSE ec.chat_ids

\* EndpointConfig.get_chat_ids
get_chat_ids(ec) ==
    IF StrTruthy(ec.chat_id) THEN <<ec.chat_id>> \o ec.chat_ids ELSE ec.chat_ids

\* the dot-path loop of get_field
RECURSIVE Traverse(_, _, _)
Traverse(value, path, default) ==
    IF path = <<>>
    THEN IF value.t \in {"null", "absent"} THEN default ELSE value
    ELSE IF value.t = "obj"
         THEN Traverse(DictGet(value, Head(path)), Tail(path), default)
         ELSE default

\* as get_field, falling back to the top-level field when the path gives nothing
get_field_fallback(ec, p, field, default) ==
    IF ec.field_map[field] # <<>>
    THEN LET v == Traverse(p, ec.field_map[field], JNull)
         IN IF v.t = "null" THEN DictGetDefault(p, field, default) ELSE v
    ELSE DictGetDefault(p, field, default)

\* get_field(payload, field, default)
get_field(ec, p, field, default) ==
    IF ec.field_map[field] # <<>>
    THEN Traverse(p, ec.field_map[field], default)
    ELSE DictGetDefault(p, field, default)

\* registry and template table of the application (app.py)
RegisteredFormatters == {"plain", "markdown"}
TemplateNames == {"order"}
Templates == [n \in TemplateNames |-> "{{first_name}}"]

\* registry.get_formatter(name): the registered formatter, None for a name
\* nothing was registered under
get_formatter(name) == IF name \in RegisteredFormatters THEN name ELSE None

\* the characters of the strings a template of the model renders to
Chars(str) ==
    CASE str = "Amy" -> <<"A", "m", "y">>
      [] str = " " -> <<" ">>
      [] OTHER -> <<>>

\* as InvalidApiKey, letting a request without the header through
InvalidApiKeyWhenSent(key, header) ==
    StrTruthy(key) /\ header # None /\ header # key

\* line 273: api_key and x_api_key != api_key
InvalidApiKey(key, header) == StrTruthy(key) /\ header # key

\* as UseTemplate, with the template only a fallback for a missing formatter
UseTemplateAsFallback(ec) ==
    /\ StrTruthy(ec.template) /\ ec.template \in TemplateNames
    /\ ec.formatter \notin RegisteredFormatters

\* line 303: endpoint_config.template and endpoint_config.template in templates
UseTemplate(ec) == StrTruthy(ec.template) /\ ec.template \in TemplateNames

\* lines 303-324: the template rendered with the payload, else what the
\* formatter made of the payload (out)
FormatMessage(ec, p, out) ==
    IF UseTemplate(ec) THEN Chars(JinjaRender(Templates[ec.template], p)) ELSE out

\* HTTP response of the handler: the success body or an HTTPException
NoResponse == [code |-> 0, error |-> "", message |-> "", results |-> <<>>]
Sent(rs) == [code |-> 200, error |-> "sent", message |-> "", results |-> rs]
HTTPException(code, error, message) ==
    [code |-> code, error |-> error, message |-> message, results |-> <<>>]
\* except Exception as e: HTTPException(500, send_failed, str(e))
SendFailed(msg) == HTTPException(500, "send_failed", msg)

\* an exception raised inside the handler: its class and str(e)
Exc(cls, msg) == [cls |-> cls, msg |-> msg]
\* an exception no except clause took: it leaves the handler as it is
Uncaught(e) == [code |-> 0, error |-> "uncaught", message |-> e.msg, results |-> <<>>]

\* as EndpointBoundary, with an except clause for ValueError only
EndpointBoundaryNarrow(e) ==
    IF e.cls = "ValueError" THEN SendFailed(e.msg) ELSE Uncaught(e)

\* lines 544-546: what the handler answers when e, not an HTTPException, is
\* raised inside the try block
EndpointBoundary(e) == SendFailed(e.msg)

\* as BotFailure, but answering with the records collected so far
BotFailurePartial(r, rs) == [SendFailed(r.msg) EXCEPT !.results = rs]

\* an awaited bot method raised r while `results` held rs: lines 544-546
BotFailure(r, rs) == EndpointBoundary(Exc(r.kind, r.msg))

\* lines 280-289
ResolveChats(ec, p) ==
    LET payload_chat_id == get_field(ec, p, "chat_id", JNull)
        payload_chat_ids == get_field(ec, p, "chat_ids", JList(<<>>))
    IN IF Truthy(payload_chat_ids) THEN payload_chat_ids.v
       ELSE IF Truthy(payload_chat_id) THEN <<payload_chat_id.v>>
       ELSE get_chat_ids(ec)

\* as BuildReplyMarkup, with the reply keyboard tested before the buttons
BuildReplyMarkupKeyboardFirst(ec, p) ==
    IF ec.reply_keyboard.set
    THEN build_reply_keyboard_markup(ec.reply_keyboard, p)
    ELSE IF ec.buttons # <<>> THEN BuildInlineKeyboard(ec.buttons, p)
    ELSE IF ec.reply_keyboard_remove.set
         THEN build_reply_keyboard_remove(ec.reply_keyboard_remove)
    ELSE IF ec.force_reply.set THEN build_force_reply(ec.force_reply, p)
    ELSE NoMarkup

\* lines 336-345: the markup built for the request
BuildReplyMarkup(ec, p) ==
    IF ec.buttons # <<>> THEN BuildInlineKeyboard(ec.buttons, p)
    ELSE IF ec.reply_keyboard.set
         THEN build_reply_keyboard_markup(ec.reply_keyboard, p)
    ELSE IF ec.reply_keyboard_remove.set
         THEN build_reply_keyboard_remove(ec.reply_keyboard_remove)
    ELSE IF ec.force_reply.set THEN build_force_reply(ec.force_reply, p)
    ELSE NoMarkup

\* as SelectKind, with the video and document branches in the other order
SelectKindVideoFirst(ec, p) ==
    IF ec.invoice.set THEN "invoice"
    ELSE IF Truthy(get_field(ec, p, "location", JNull)) THEN "location"
    ELSE IF Truthy(get_field(ec, p, "video_url", JNull)) THEN "video"
    ELSE IF Truthy(get_field(ec, p, "document_url", JNull)) THEN "document"
    ELSE IF Truthy(get_field(ec, p, "audio_url", JNull)) THEN "audio"
    ELSE IF Truthy(get_field(ec, p, "voice_url", JNull)) THEN "voice"
    ELSE IF Truthy(get_field(ec, p, "image_urls", JList(<<>>))) THEN "media_group"
    ELSE IF Truthy(get_field(ec, p, "image_url", JNull)) THEN "photo"
    ELSE "text"

\* The message kind of lines 352-527, by the order of the if / elif chain.
SelectKind(ec, p) ==
    IF ec.invoice.set THEN "invoice"
    ELSE IF Truthy(get_field(ec, p, "location", JNull)) THEN "location"
    ELSE IF Truthy(get_field(ec, p, "document_url", JNull)) THEN "document"
    ELSE IF Truthy(get_field(ec, p, "video_url", JNull)) THEN "video"
    ELSE IF Truthy(get_field(ec, p, "audio_url", JNull)) THEN "audio"
    ELSE IF Truthy(get_field(ec, p, "voice_url", JNull)) THEN "voice"
    ELSE IF Truthy(get_field(ec, p, "image_urls", JList(<<>>))) THEN "media_group"
    ELSE IF Truthy(get_field(ec, p, "image_url", JNull)) THEN "photo"
    ELSE "text"

\* the bot method each branch awaits
MethodOf(kind) ==
    CASE kind = "invoice" -> "sendInvoice"
      [] kind = "location" -> "sendLocation"
      [] kind = "document" -> "sendDocument"
      [] kind = "video" -> "sendVideo"
      [] kind = "audio" -> "sendAudio"
      [] kind = "voice" -> "sendVoice"
      [] kind = "media_group" -> "sendMediaGroup"
      [] kind = "photo" -> "sendPhoto"
      [] OTHER -> "sendMessage"

\* as PassesMarkup, with the markup passed by every branch
PassesMarkupAlways(kind) == kind \in STRING

\* the branches that pass reply_markup=reply_markup
PassesMarkup(kind) == kind \notin {"media_group", "photo"}
\* the branches that pass the formatted message as text or caption
PassesText(kind) == kind \notin {"invoice", "location"}

\* location.get("latitude") / .get("longitude"): the 400 of lines 442-449
LocationInvalid(ec, p) ==
    LET location == get_field(ec, p, "location", JNull)
    IN DictGet(location, "latitude").t = "null"
       \/ DictGet(location, "longitude").t = "null"

\* int(str) on the strings of the model
IsIntString(x) == x \in {"0", "100", "250"}

\* one numeric invoice field: an int passes through, a str is rendered and
\* parsed by int(); TRUE when int() raises ValueError
AmountFails(a, p) ==
    a.t = "str" /\ ~IsIntString(RenderTemplate(a.v, p))

\* int(str) where it does not raise
IntOf(x) == CASE x = "0" -> 0 [] x = "100" -> 100 [] x = "250" -> 250

\* lines 376-380, 386-390, 398-402: the int a numeric field is sent as
InvoiceNumber(a, p) ==
    IF a.t = "str" THEN JNum(IntOf(RenderTemplate(a.v, p))) ELSE a

\* lines 372-404: prices, max_tip_amount and suggested_tip_amounts as passed
\* to send_invoice
InvoiceNumbers(ec, p) ==
    [prices |-> [i \in 1..Len(ec.invoice.prices) |->
                    InvoiceNumber(ec.invoice.prices[i], p)],
     max_tip_amount |-> IF ec.invoice.max_tip_amount.t = "null" THEN JNull
                        ELSE InvoiceNumber(ec.invoice.max_tip_amount, p),
     suggested_tip_amounts |->
        IF ec.invoice.suggested_tip_amounts = <<>> THEN JNull
        ELSE JList([i \in 1..Len(ec.invoice.suggested_tip_amounts) |->
                       InvoiceNumber(ec.invoice.suggested_tip_amounts[i], p)])]

\* lines 372-404: some int() raises
InvoiceNumbersFail(ec, p) ==
    \/ \E i \in 1..Len(ec.invoice.prices) : AmountFails(ec.invoice.prices[i], p)
    \/ AmountFails(ec.invoice.max_tip_amount, p)
    \/ \E i \in 1..Len(ec.invoice.suggested_tip_amounts) :
           AmountFails(ec.invoice.suggested_tip_amounts[i], p)

\* What awaiting a send_* method yields: every way the retry loop can end
\* at the default max_retries, or the canned result in test mode.
RECURSIVE RetryResults(_, _, _)
RetryResults(m, n, mr) ==
    UNION {LET st == RetryStep(n, mr, o)
           IN IF st.pc = "attempting" THEN RetryResults(m, st.attempt, mr)
              ELSE {st.ret} : o \in Outcomes(m)}

SendResults == [m \in SendMethods |-> RetryResults(m, 0, DefaultMaxRetries)]

BotResults(m) ==
    IF test_mode THEN {Returned(CannedBody(m))} ELSE SendResults[m]

\* as MsgIdOf, reading the last message of a list
MsgIdOfLast(body) == IF body.is_list THEN Last(body.ids) ELSE Head(body.ids)

\* lines 529-533: result.message_id, or result[0].message_id of a list
MsgIdOf(body) == IF body.is_list THEN body.ids[1] ELSE Head(body.ids)

NoText == <<"<not passed>">>
BotCall(m, chat, text, pm, markup, r) ==
    [method |-> m, chat_id |-> chat, text |-> text, parse_mode |-> pm,
     reply_markup |-> markup, numbers |-> JNull, ret |-> r]

Finish(resp) ==
    /\ hpc' = "done"
    /\ response' = resp

\* The handler up to its first await: API key, chat resolution, message
\* body, media fields, reply markup.
Receive ==
    /\ hpc = "idle"
    /\ LET ec == endpoint_config
           chats == ResolveChats(ec, payload)
           pm == LET j == get_field(ec, payload, "parse_mode", JNull)
                 IN IF Truthy(j) THEN j.v ELSE ec.parse_mode
           body == FormatMessage(ec, payload, rendered)
           markup == BuildReplyMarkup(ec, payload)
       IN IF InvalidApiKey(api_key, x_api_key)
          THEN /\ Finish(HTTPException(401, "invalid_api_key",
                                       "Invalid or missing API key"))
               /\ UNCHANGED <<target_chat_ids, formatted_message, parse_mode,
                              reply_markup, chat_idx>>
          ELSE IF chats = <<>>
          THEN /\ Finish(HTTPException(400, "no_chat_id",
                             "No chat_id specified in config or request"))
               /\ UNCHANGED <<target_chat_ids, formatted_message, parse_mode,
                              reply_markup, chat_idx>>
          ELSE IF ~UseTemplate(ec) /\ get_formatter(ec.formatter) = None
          THEN /\ Finish(HTTPException(500, "formatter_not_found", ec.formatter))
               /\ target_chat_ids' = chats
               /\ parse_mode' = pm
               /\ UNCHANGED <<formatted_message, reply_markup, chat_idx>>
          ELSE IF markup.type = "ValueError"
          THEN /\ Finish(EndpointBoundary(Exc("ValueError", markup.msg)))
               /\ target_chat_ids' = chats
               /\ parse_mode' = pm
               /\ formatted_message' = body
               /\ UNCHANGED <<reply_markup, chat_idx>>
          ELSE /\ hpc' = "sending"
               /\ target_chat_ids' = chats
               /\ parse_mode' = pm
               /\ formatted_message' = body
               /\ reply_markup' = markup
               /\ chat_idx' = 1
               /\ UNCHANGED response
    /\ UNCHANGED <<endpoint_config, api_key, x_api_key, payload, rendered,
                   pre_sent, calls, results, botVars, keyboardVars, escapeVars,
                   formatterVars, webhookVars>>

\* as NeedsPreStep, without the strip() test
NeedsPreStepUnstripped ==
    /\ endpoint_config.invoice.set
    /\ formatted_message # <<>>
    /\ ~pre_sent

\* the invoice branch sends the formatted message first
NeedsPreStep ==
    /\ endpoint_config.invoice.set
    /\ formatted_message # <<>> /\ Strip(formatted_message) # <<>>
    /\ ~pre_sent

\* lines 355-363: await bot.send_message(.., reply_markup=None)
SendPreStep ==
    /\ hpc = "sending"
    /\ NeedsPreStep
    /\ \E r \in BotResults("sendMessage") :
         /\ calls' = Append(calls, BotCall("sendMessage", target_chat_ids[chat_idx],
                                formatted_message, parse_mode, NoMarkup, r))
         /\ IF r.kind = "body"
            THEN pre_sent' = TRUE /\ UNCHANGED <<hpc, response>>
            ELSE Finish(BotFailure(r, results)) /\ UNCHANGED pre_sent
    /\ UNCHANGED <<endpoint_config, api_key, x_api_key, payload, rendered,
                   target_chat_ids, formatted_message, parse_mode, reply_markup,
                   chat_idx, results, botVars, keyboardVars, escapeVars,
                   formatterVars, webhookVars>>

\* The rest of one iteration of `for chat_id in target_chat_ids`: the send of
\* the selected kind, the result record, and the return after the last chat.
SendToChat ==
    /\ hpc = "sending"
    /\ ~NeedsPreStep
    /\ LET ec == endpoint_config
           kind == SelectKind(ec, payload)
           chat == target_chat_ids[chat_idx]
       IN IF kind = "invoice" /\ InvoiceNumbersFail(ec, payload)
          THEN /\ Finish(EndpointBoundary(Exc("ValueError",
                                               "invalid literal for int()")))
               /\ UNCHANGED <<calls, results, chat_idx, pre_sent>>
          ELSE IF kind = "location" /\ get_field(ec, payload, "location", JNull).t # "obj"
          THEN /\ Finish(EndpointBoundary(Exc("AttributeError",
                                               "object has no attribute 'get'")))
               /\ UNCHANGED <<calls, results, chat_idx, pre_sent>>
          ELSE IF kind = "location" /\ LocationInvalid(ec, payload)
          THEN /\ Finish(HTTPException(400, "invalid_location",
                             "Location must have latitude and longitude"))
               /\ UNCHANGED <<calls, results, chat_idx, pre_sent>>
          ELSE \E r \in BotResults(MethodOf(kind)) :
                 /\ calls' = Append(calls,
                        [BotCall(MethodOf(kind), chat,
                                 IF PassesText(kind) THEN formatted_message ELSE NoText,
                                 IF PassesText(kind) THEN parse_mode ELSE None,
                                 IF PassesMarkup(kind) THEN reply_markup ELSE NoMarkup,
                                 r)
                            EXCEPT !.numbers = IF kind = "invoice"
                                               THEN InvoiceNumbers(ec, payload)
                                               ELSE JNull])
                 /\ IF r.kind # "body"
                    THEN /\ Finish(BotFailure(r, results))
                         /\ UNCHANGED <<results, chat_idx, pre_sent>>
                    ELSE LET rs == Append(results, [chat_id |-> chat,
                                                   message_id |-> MsgIdOf(r.body)])
                         IN /\ results' = rs
                            /\ pre_sent' = FALSE
                            /\ chat_idx' = chat_idx + 1
                            /\ IF chat_idx = Len(target_chat_ids)
                               THEN Finish(Sent(rs))
                               ELSE UNCHANGED <<hpc, response>>
    /\ UNCHANGED <<endpoint_config, api_key, x_api_key, payload, rendered,
                   target_chat_ids, formatted_message, parse_mode, reply_markup,
                   botVars, keyboardVars, escapeVars, formatterVars, webhookVars>>

NextDispatch == Receive \/ SendPreStep \/ SendToChat

(***************************************************************************)
(* Webhook handler: setup_webhook_handler.webhook_handler (server/routes.py)*)
(***************************************************************************)
\* request.json() on a body that is not JSON
NotJson == [t |-> "invalid", v |-> <<>>]

\* CallbackConfig and CommandConfig.  A command and the text of a message
\* are sequences of characters.
CallbackConfig(data, resp, url) == [data |-> data, response |-> resp, url |-> url]
NoCallback == CallbackConfig(None, None, None)
CommandConfig(command, resp, bs) ==
    [command |-> command, response |-> resp, parse_mode |-> None, buttons |-> bs]

\* what the webhook handler returns
NoWebhookResponse == [ok |-> FALSE, error |-> "<none>"]
WebhookOk == [ok |-> TRUE, error |-> ""]

\* lines 634-636: except Exception as e: return {"ok": False, "error": str(e)}
WebhookBoundary(e) == [ok |-> FALSE, error |-> e.msg]

\* the characters of t before the first one in seps
RECURSIVE TakeUntil(_, _)
TakeUntil(t, seps) ==
    IF t = <<>> \/ Head(t) \in seps THEN <<>>
    ELSE <<Head(t)>> \o TakeUntil(Tail(t), seps)

\* as CommandOf, keeping the @botname suffix
CommandOfKeepingBot(text) == TakeUntil(LStrip(text), Whitespace)

\* line 598: text.split()[0].split("@")[0]
CommandOf(text) == TakeUntil(TakeUntil(LStrip(text), Whitespace), {"@"})

\* as FirstMatch without the break: the last handler that matches
LastMatch(matching) ==
    IF matching = {} THEN 0
    ELSE CHOOSE i \in matching : \A j \in matching : i >= j

\* the `for .. if .. break` loops of lines 571 and 601: of the indices whose
\* handler matches, the first, 0 when none does
FirstMatch(matching) ==
    IF matching = {} THEN 0
    ELSE CHOOSE i \in matching : \A j \in matching : i <= j

\* str(message["chat"]["id"])
PyStr(j) ==
    CASE j.t = "str" -> j.v
      [] j = JNum(42) -> "42"
      [] j = JNum(-1001) -> "-1001"
      [] OTHER -> "0"

\* lines 604-610: the context the response of a command is rendered with
CommandContext(user, chat_id) ==
    JObj([first_name |-> DictGetDefault(user, "first_name", JStr("")),
          username |-> DictGetDefault(user, "username", JStr("")),
          chat_id |-> JStr(chat_id)])

WebhookFinish(resp) ==
    /\ wpc' = "done"
    /\ wresponse' = resp

\* A body that is not JSON, or an update with neither callback_query nor message.
WebhookOther ==
    /\ wpc = "idle"
    /\ \/ update = NotJson
       \/ /\ update.t = "obj"
          /\ update.v.callback_query.t = "absent"
          /\ update.v.message.t = "absent"
    /\ WebhookFinish(IF update = NotJson
                     THEN WebhookBoundary(Exc("JSONDecodeError", "Expecting value"))
                     ELSE WebhookOk)
    /\ UNCHANGED <<update, commands, callbacks, matched, wcalls,
                   botVars, handlerVars, keyboardVars, escapeVars, formatterVars>>

\* lines 562-587 up to the end of the first await: the callback handler
\* matched by data, and bot.answer_callback_query.
WebhookCallback ==
    /\ wpc = "idle"
    /\ update.t = "obj"
    /\ update.v.callback_query.t # "absent"
    /\ LET callback == update.v.callback_query
           callback_data == DictGetDefault(callback, "data", JStr("")).v
           i == FirstMatch({k \in 1..Len(callbacks) :
                               callbacks[k].data = callback_data})
           h == IF i = 0 THEN NoCallback ELSE callbacks[i]
       IN IF DictGetDefault(callback, "id", JAbsent).t = "absent"
          THEN /\ WebhookFinish(WebhookBoundary(Exc("KeyError", "'id'")))
               /\ UNCHANGED <<matched, wcalls>>
          \* answer_callback_query is _send_with_retry(.., 1), test mode or not
          ELSE \E r \in RetryResults("answerCallbackQuery", 0, AdminMaxRetries) :
                 /\ wcalls' = Append(wcalls,
                        BotCall("answerCallbackQuery", callback.v.id.v, h.response,
                                None, NoMarkup, r))
                 /\ matched' = h
                 /\ IF r.kind # "body"
                    THEN WebhookFinish(WebhookBoundary(Exc(r.kind, r.msg)))
                    ELSE IF StrTruthy(h.url)
                    THEN wpc' = "forwarding" /\ UNCHANGED wresponse
                    ELSE WebhookFinish(WebhookOk)
    /\ UNCHANGED <<update, commands, callbacks, botVars, handlerVars,
                   keyboardVars, escapeVars, formatterVars>>

\* lines 575-585: the callback posted to the URL of the handler; session.post
\* yields a response of any status, or raises a ClientError
WebhookForward ==
    /\ wpc = "forwarding"
    /\ \E r \in {Returned(NoBody), RaisedClientError("refused")} :
         /\ wcalls' = Append(wcalls,
                BotCall("POST", matched.url, matched.data, None, NoMarkup, r))
         /\ WebhookFinish(IF r.kind = "body" THEN WebhookOk
                          ELSE WebhookBoundary(Exc(r.kind, r.msg)))
    /\ UNCHANGED <<update, commands, callbacks, matched,
                   botVars, handlerVars, keyboardVars, escapeVars, formatterVars>>

\* lines 590-630: a message update, its command and the reply of the first
\* command handler that matches.
WebhookMessage ==
    /\ wpc = "idle"
    /\ update.t = "obj"
    /\ update.v.callback_query.t = "absent"
    /\ update.v.message.t # "absent"
    /\ LET message == update.v.message
           user == DictGetDefault(message, "from", JObj(<<>>))
           text == DictGetDefault(message, "text", JStr(<<>>)).v
           command == CommandOf(text)
           i == FirstMatch({k \in 1..Len(commands) :
                               commands[k].command = command})
       IN IF DictGet(message, "chat").t # "obj"
          THEN /\ WebhookFinish(WebhookBoundary(Exc("KeyError", "'chat'")))
               /\ UNCHANGED wcalls
          ELSE IF DictGetDefault(message.v.chat, "id", JAbsent).t = "absent"
          THEN /\ WebhookFinish(WebhookBoundary(Exc("KeyError", "'id'")))
               /\ UNCHANGED wcalls
          ELSE IF text = <<>> \/ Head(text) # "/" \/ i = 0
          THEN /\ WebhookFinish(WebhookOk)
               /\ UNCHANGED wcalls
          ELSE LET handler == commands[i]
                   chat_id == PyStr(message.v.chat.v.id)
                   ctx == CommandContext(user, chat_id)
                   response_text == IF StrTruthy(handler.response)
                                    THEN JinjaRender(handler.response, ctx)
                                    ELSE None
                   markup == IF handler.buttons # <<>>
                             THEN BuildInlineKeyboard(handler.buttons, ctx)
                             ELSE NoMarkup
               IN IF ~StrTruthy(response_text)
                  THEN /\ WebhookFinish(WebhookOk)
                       /\ UNCHANGED wcalls
                  ELSE IF markup.type = "ValueError"
                  THEN /\ WebhookFinish(WebhookBoundary(Exc("ValueError", markup.msg)))
                       /\ UNCHANGED wcalls
                  ELSE \E r \in BotResults("sendMessage") :
                         /\ wcalls' = Append(wcalls,
                                BotCall("sendMessage", chat_id, response_text,
                                        handler.parse_mode, markup, r))
                         /\ WebhookFinish(IF r.kind = "body" THEN WebhookOk
                                          ELSE WebhookBoundary(Exc(r.kind, r.msg)))
    /\ UNCHANGED <<update, commands, callbacks, matched,
                   botVars, handlerVars, keyboardVars, escapeVars, formatterVars>>

NextWebhook == WebhookOther \/ WebhookCallback \/ WebhookForward \/ WebhookMessage

(***************************************************************************)
(* Requests in flight.  The handlers are coroutines of one event loop: a   *)
(* handler runs from one await to the next without another one running.    *)
(* Each request has the labels of its endpoint, is rejected before the     *)
(* formatter is looked up (401, no chat, a template endpoint) or not, and   *)
(* has a number of chats to send to; seen is formatter.labels as it was    *)
(* when formatter.format was called for the request.                       *)
(***************************************************************************)
NotFormatted == "<not formatted>"

\* as HandlerStart, calling formatter.format before the labels are bound
HandlerStartFormatFirst(r) ==
    /\ reqs[r].pc = "idle"
    /\ ~reqs[r].rejected
    /\ formatter_labels' = reqs[r].labels
    /\ reqs' = [reqs EXCEPT ![r].pc = "sending", ![r].seen = formatter_labels]
    /\ UNCHANGED <<test_mode, botVars, handlerVars, keyboardVars, webhookVars,
                   escapeVars>>

\* lines 272-349: the handler from its entry to its first await.  Lines
\* 318-324: formatter.labels = endpoint_config.labels, then
\* formatter.format(payload), with no await in between.
HandlerStart(r) ==
    /\ reqs[r].pc = "idle"
    /\ ~reqs[r].rejected
    /\ formatter_labels' = reqs[r].labels
    /\ reqs' = [reqs EXCEPT ![r].pc = "sending", ![r].seen = formatter_labels']
    /\ UNCHANGED <<test_mode, botVars, handlerVars, keyboardVars, webhookVars,
                   escapeVars>>

\* a request answered before line 308: the formatter is not touched
HandlerReject(r) ==
    /\ reqs[r].pc = "idle"
    /\ reqs[r].rejected
    /\ reqs' = [reqs EXCEPT ![r].pc = "done"]
    /\ UNCHANGED <<formatter_labels, test_mode, botVars, handlerVars,
                   keyboardVars, webhookVars, escapeVars>>

\* one awaited bot call of the chat loop completes: it fails and the request
\* ends, or it returns and the loop goes on to the next chat
HandlerAwait(r) ==
    /\ reqs[r].pc = "sending"
    /\ \E ok \in BOOLEAN :
         reqs' = [reqs EXCEPT
                     ![r].chats = IF ok THEN @ - 1 ELSE @,
                     ![r].pc = IF ok /\ reqs[r].chats > 1 THEN "sending" ELSE "done"]
    /\ UNCHANGED <<formatter_labels, test_mode, botVars, handlerVars,
                   keyboardVars, webhookVars, escapeVars>>

NextConcurrent ==
    \E r \in DOMAIN reqs : HandlerStart(r) \/ HandlerReject(r) \/ HandlerAwait(r)

(***************************************************************************)
(* Text sanitizer: sanitize_text (utils/escape.py).  A text is a sequence   *)
(* of characters; a backslash is the one-character string "\\", and        *)
(* "backtick" and "e-acute" stand for the characters of these names.       *)
(***************************************************************************)
\* re.sub(r"([<specials>])", r"\\\1", text)
RECURSIVE EscapeChars(_, _)
EscapeChars(t, specials) ==
    IF t = <<>> THEN <<>>
    ELSE (IF Head(t) \in specials THEN <<"\\", Head(t)>> ELSE <<Head(t)>>)
         \o EscapeChars(Tail(t), specials)

\* as escape_markdown_v2, with the character class of the legacy Markdown
escape_markdown_v2_legacy(t) == EscapeChars(t, {"_", "*", "backtick", "["})

escape_markdown_v2(t) ==
    EscapeChars(t, {"_", "*", "[", "]", "(", ")", "~", "backtick", ">", "#", "+", "-",
                    "=", "|", "{", "}", ".", "!"})

escape_markdown(t) == EscapeChars(t, {"_", "*", "backtick", "["})

\* sanitize_text(text, parse_mode) on a str: HTML, None and unknown parse
\* modes return the text as it is
sanitize_text(t, pm) ==
    CASE pm = "MarkdownV2" -> escape_markdown_v2(t)
      [] pm = "Markdown" -> escape_markdown(t)
      [] OTHER -> t

Sanitize ==
    /\ epc = "idle"
    /\ escaped_text' = sanitize_text(raw_text, escape_mode)
    /\ epc' = "done"
    /\ UNCHANGED <<raw_text, escape_mode, test_mode, botVars, handlerVars,
                   keyboardVars, webhookVars, formatterVars>>

(***************************************************************************)
(* Initial states and specifications                                       *)
(***************************************************************************)
HandlerIdle ==
    /\ endpoint_config = NoEndpoint /\ api_key = None /\ x_api_key = None
    /\ payload = JNull /\ rendered = <<>>
    /\ hpc = "off" /\ target_chat_ids = <<>> /\ formatted_message = <<>>
    /\ parse_mode = None /\ reply_markup = NoMarkup /\ chat_idx = 0
    /\ pre_sent = FALSE /\ calls = <<>> /\ results = <<>>
    /\ response = NoResponse

WebhookIdle ==
    /\ update = NotJson /\ commands = <<>> /\ callbacks = <<>>
    /\ wpc = "off" /\ matched = NoCallback /\ wcalls = <<>>
    /\ wresponse = NoWebhookResponse

KeyboardIdle ==
    buttons = <<>> /\ context = JNull /\ kpc = "off" /\ kresult = NoMarkup

EscapeIdle ==
    raw_text = <<>> /\ escape_mode = None /\ epc = "off" /\ escaped_text = <<>>

FormatterIdle == formatter_labels = None /\ reqs = <<>>

BotIdle ==
    /\ bpc = "off" /\ method = None /\ max_retries_arg = Omitted
    /\ max_retries = 0 /\ attempt = 0
    /\ log = <<>> /\ ret = NoRet

InitBot ==
    /\ test_mode \in BOOLEAN
    /\ bpc = "idle" /\ method = None /\ max_retries_arg = Omitted
    /\ max_retries = 0 /\ attempt = 0
    /\ log = <<>> /\ ret = NoRet
    /\ HandlerIdle /\ KeyboardIdle /\ WebhookIdle /\ EscapeIdle /\ FormatterIdle

NextBot == CallSend \/ CallAdmin \/ GetWebhookInfo \/ Attempt

SpecBot == InitBot /\ [][NextBot]_vars

InitKeyboard ==
    /\ buttons \in Keyboards
    /\ context \in Contexts
    /\ kpc = "idle" /\ kresult = NoMarkup
    /\ test_mode = FALSE /\ BotIdle /\ HandlerIdle /\ WebhookIdle
    /\ EscapeIdle /\ FormatterIdle

NextKeyboard == Build

SpecKeyboard == InitKeyboard /\ [][NextKeyboard]_vars

(***************************************************************************)
(* Requests                                                                *)
(***************************************************************************)
EmptyPayload == [f \in PayloadFields |-> JAbsent]

UrlFields == {"document_url", "video_url", "audio_url", "voice_url", "image_url"}

\* every combination of the media fields: each URL absent or set,
\* image_urls absent, empty or two URLs
MediaPayloads ==
    {[f \in PayloadFields |->
        IF f \in UrlFields THEN (IF f \in S THEN JStr("https://u") ELSE JAbsent)
        ELSE IF f = "image_urls" THEN iu ELSE JAbsent] :
     S \in SUBSET UrlFields,
     iu \in {JAbsent, JList(<<>>), JList(<<"https://a", "https://b">>)}}

LocationObj(lat, lon) == JObj([latitude |-> lat, longitude |-> lon])
Locations == {JAbsent, LocationObj(JAbsent, JAbsent),
              LocationObj(JNum(5), JAbsent), LocationObj(JNum(5), JNum(0))}

LiteralInvoice == Invoice(<<JNum(100)>>, JNull, <<>>)

Bodies == {<<>>, <<" ">>, <<"h", "i">>, <<" ", "h", "i", "\n">>}

HandlerReady ==
    /\ hpc = "idle" /\ target_chat_ids = <<>> /\ formatted_message = <<>>
    /\ parse_mode = None /\ reply_markup = NoMarkup /\ chat_idx = 0
    /\ pre_sent = FALSE /\ calls = <<>> /\ results = <<>>
    /\ response = NoResponse
    /\ BotIdle /\ KeyboardIdle /\ EscapeIdle /\ FormatterIdle

ReceiveReady ==
    /\ api_key = None /\ x_api_key = None
    /\ HandlerReady /\ WebhookIdle

\* Requests that exercise the choice of the message kind, to an endpoint
\* with two configured chats.
InitDispatch ==
    /\ test_mode = FALSE
    /\ \E inv \in {NoInvoice, LiteralInvoice},
          bs \in {<<>>, <<<<PayButton>>>>} :
         endpoint_config = [Endpoint(None, <<"c1", "c2">>)
                               EXCEPT !.invoice = inv, !.buttons = bs]
    /\ \E m \in MediaPayloads, loc \in Locations :
         payload = JObj([m EXCEPT !.location = loc])
    /\ rendered \in Bodies
    /\ ReceiveReady

SpecDispatch == InitDispatch /\ [][NextDispatch]_vars

\* Requests that exercise the resolution of the chat list and the fan-out.
InitFanout ==
    /\ test_mode \in BOOLEAN
    /\ \E cid \in {None, "c4"}, cids \in {<<>>, <<"c5", "c6">>},
          inv \in {NoInvoice, LiteralInvoice} :
         endpoint_config = [Endpoint(cid, cids) EXCEPT !.invoice = inv]
    /\ \E pid \in {JAbsent, JNull, JStr("c3")},
          pids \in {JAbsent, JList(<<>>), JList(<<"c2", "c1">>)},
          m \in {EmptyPayload,
                 [EmptyPayload EXCEPT !.document_url = JStr("https://u")],
                 [EmptyPayload EXCEPT !.image_urls =
                                          JList(<<"https://a", "https://b">>)]} :
         payload = JObj([m EXCEPT !.chat_id = pid, !.chat_ids = pids])
    /\ rendered \in {<<>>, <<"h", "i">>}
    /\ ReceiveReady

SpecFanout == InitFanout /\ [][NextDispatch]_vars

\* Keyboards of one row, over buttons of every action shape: no action, an
\* empty url, a switch_inline_query field that is empty or not, two actions,
\* a templated text and action.
ActionShapes ==
    {Button("Plain"), UrlButton, PayButton,
     [Button("{{first_name}}") EXCEPT !.callback_data = "{{first_name}}"],
     [Button("Empty") EXCEPT !.url = ""],
     [Button("Search") EXCEPT !.switch_inline_query = ""],
     [Button("Search") EXCEPT !.switch_inline_query = "cats"],
     [Button("Here") EXCEPT !.switch_inline_query_current_chat = ""],
     [Button("Search") EXCEPT !.switch_inline_query = "",
                              !.switch_inline_query_current_chat = "dogs"],
     [UrlButton EXCEPT !.switch_inline_query = ""]}

InitButtons ==
    /\ \E k \in 1..MaxRowLen : \E row \in [1..k -> ActionShapes] : buttons = <<row>>
    /\ context \in Contexts
    /\ kpc = "idle" /\ kresult = NoMarkup
    /\ test_mode = FALSE /\ BotIdle /\ HandlerIdle /\ WebhookIdle
    /\ EscapeIdle /\ FormatterIdle

SpecButtons == InitButtons /\ [][NextKeyboard]_vars

EmptyRequest == [f \in PayloadFields \cup {"data", "first_name"} |-> JAbsent]

\* Endpoint requests, as <<endpoint, payload>>, that exercise the field_map,
\* the choice of template or formatter and the failures inside the handler.
Requests ==
    \* field_map on (chat_id at data.chat) or off, against every shape of the
    \* path and a top-level chat_id
    {<<[Endpoint(cid, <<>>) EXCEPT !.field_map = fm],
       JObj([EmptyRequest EXCEPT !.data = d, !.chat_id = top])>> :
     cid \in {None, "c4"},
     fm \in {NoFieldMap, [NoFieldMap EXCEPT !.chat_id = <<"data", "chat">>]},
     d \in {JAbsent, JNull, JStr("x"), JObj([chat |-> JAbsent]),
            JObj([chat |-> JNull]), JObj([chat |-> JStr("c7")])},
     top \in {JAbsent, JStr("c3")}}
    \* template named or not, in the table or not; formatter registered or not
    \cup {<<[Endpoint(cid, <<>>) EXCEPT !.template = t, !.formatter = f],
            JObj([EmptyRequest EXCEPT !.first_name = n])>> :
          cid \in {None, "c4"}, t \in {None, "order", "missing"},
          f \in {"plain", "nope"}, n \in {JAbsent, JStr("Amy")}}
    \* a misplaced pay button, a location that is not an object, an invoice
    \* amount that does not render to an integer
    \cup {<<[Endpoint("c4", <<>>) EXCEPT !.buttons = bs, !.invoice = inv],
            JObj([EmptyRequest EXCEPT !.location = loc, !.amount = a])>> :
          bs \in {<<>>, <<<<UrlButton>>>>, <<<<UrlButton, PayButton>>>>},
          inv \in {NoInvoice, Invoice(<<JStr("{{amount}}")>>, JNull, <<>>)},
          loc \in {JAbsent, JStr("here"), LocationObj(JNum(5), JNum(0))},
          a \in {JAbsent, JStr("100")}}

InitEndpoint ==
    /\ test_mode = FALSE
    /\ api_key \in {None, "", "secret"}
    /\ x_api_key \in {None, "secret", "wrong"}
    /\ \E rq \in Requests : endpoint_config = rq[1] /\ payload = rq[2]
    /\ rendered \in {<<>>, <<"h", "i">>}
    /\ HandlerReady /\ WebhookIdle

\* Telegram updates posted to the webhook: a body that is not JSON, an
\* update with neither key, callback queries, messages, and both at once.
Updates ==
    LET Update(cq, msg) == JObj([callback_query |-> cq, message |-> msg])
        Message(chat, from, text) ==
            JObj([chat |-> chat, from |-> from, text |-> text])
        CallbackQuery(id, data) == JObj([id |-> id, data |-> data])
        Chat42 == JObj([id |-> JNum(42)])
        Texts == {<<>>, <<"/">>, <<"h", "i">>, <<"/", "s">>, <<"/", "S">>,
                  <<"/", "s", "t">>, <<"/", "s", "@", "b">>, <<"/", "s", " ", "x">>,
                  <<"/", "s", "@", "b", " ", "x">>, <<" ", "/", "s">>,
                  <<"/", "s", "\n", "x">>}
    IN {NotJson, Update(JAbsent, JAbsent)}
       \cup {Update(CallbackQuery(JStr("q1"), d), JAbsent) :
               d \in {JAbsent, JStr("buy"), JStr("other")}}
       \cup {Update(CallbackQuery(JAbsent, JStr("buy")), JAbsent)}
       \cup {Update(JAbsent, Message(Chat42, from, JStr(t))) :
               from \in {JAbsent, JObj([first_name |-> JStr("Amy")])}, t \in Texts}
       \cup {Update(JAbsent, Message(JAbsent, JAbsent, JStr(<<"/", "s">>))),
             Update(JAbsent, Message(JObj([id |-> JAbsent]), JAbsent,
                                     JStr(<<"/", "s">>))),
             Update(JAbsent, Message(JObj([id |-> JStr("@chan")]), JAbsent, JAbsent)),
             Update(CallbackQuery(JStr("q1"), JStr("buy")),
                    Message(Chat42, JAbsent, JStr(<<"/", "s">>)))}

InitWebhook ==
    /\ test_mode \in BOOLEAN
    /\ update \in Updates
    /\ commands \in
         {<<>>,
          <<CommandConfig(<<"/", "s">>, "{{first_name}}", <<>>)>>,
          <<CommandConfig(<<"/", "h">>, "Help", <<>>),
            CommandConfig(<<"/", "s">>, "Welcome", <<<<UrlButton>>>>),
            CommandConfig(<<"/", "s">>, "Again", <<>>)>>,
          <<CommandConfig(<<"/", "s">>, None, <<>>),
            CommandConfig(<<"/", "s">>, "Never", <<>>)>>,
          <<CommandConfig(<<"/", "s">>, "Welcome", <<<<UrlButton, GameButton>>>>)>>}
    /\ callbacks \in
         {<<>>,
          <<CallbackConfig("buy", "Bought", None)>>,
          <<CallbackConfig("sell", None, None),
            CallbackConfig("buy", None, "https://hook")>>,
          <<CallbackConfig("Buy", "Wrong case", None),
            CallbackConfig("buy", "First", "https://hook"),
            CallbackConfig("buy", "Second", None)>>}
    /\ wpc = "idle" /\ matched = NoCallback /\ wcalls = <<>>
    /\ wresponse = NoWebhookResponse
    /\ HandlerIdle /\ BotIdle /\ KeyboardIdle /\ EscapeIdle /\ FormatterIdle

\* Requests that exercise the reply markup: an endpoint with two chats that
\* configures any of the four markups, against a payload of every message
\* kind; and endpoints with one markup, over the configurations of it.
InitMarkup ==
    /\ test_mode = FALSE
    /\ \/ /\ \E bs \in {<<>>, <<<<UrlButton>>>>},
                 rk \in {Unset, ReplyKeyboardMarkup(<<<<"Yes", "No">>>>)},
                 rm \in {Unset, ReplyKeyboardRemove(PyTrue, None)},
                 fr \in {Unset, ForceReply(PyTrue, None, None)},
                 inv \in {NoInvoice, LiteralInvoice} :
                endpoint_config =
                    [Endpoint(None, <<"c1", "c2">>)
                        EXCEPT !.buttons = bs, !.reply_keyboard = rk,
                               !.reply_keyboard_remove = rm, !.force_reply = fr,
                               !.invoice = inv]
          /\ \E f \in UrlFields \cup {"image_urls", "location", "chat_id"} :
                payload = JObj([EmptyRequest EXCEPT
                    ![f] = CASE f = "image_urls" -> JList(<<"https://a", "https://b">>)
                             [] f = "location" -> LocationObj(JNum(5), JNum(0))
                             [] f = "chat_id" -> JAbsent
                             [] OTHER -> JStr("https://u")])
       \/ /\ \E rm \in {ReplyKeyboardRemove(b, sel) :
                             b \in {PyTrue, PyFalse}, sel \in {None, PyTrue, PyFalse}}
                       \cup {Unset},
                 fr \in {ForceReply(b, ph, sel) :
                            b \in {PyTrue, PyFalse},
                            ph \in {None, "", "Reply", "{{first_name}}"},
                            sel \in {None, PyTrue, PyFalse}} :
                endpoint_config =
                    [Endpoint("c1", <<>>)
                        EXCEPT !.reply_keyboard_remove = rm, !.force_reply = fr]
          /\ \E n \in {JAbsent, JStr("Amy")} :
                payload = JObj([EmptyRequest EXCEPT !.first_name = n])
    /\ rendered \in {<<>>, <<"h", "i">>}
    /\ ReceiveReady

SpecMarkup == InitMarkup /\ [][NextDispatch]_vars

\* Requests to an invoice endpoint with two chats whose numeric fields are
\* literal integers or templates, against payloads that are empty, leave
\* amount out, or give it as an integer or as something else.
InitInvoice ==
    /\ test_mode = FALSE
    /\ \E prices \in {<<JNum(100)>>, <<JStr("{{amount}}")>>, <<JStr("250")>>,
                       <<JNum(100), JStr("{{amount|default('250')}}")>>},
          tip \in {JNull, JNum(250), JStr("{{amount}}")},
          tips \in {<<>>, <<JNum(100), JStr("{{amount}}")>>} :
         endpoint_config = [Endpoint(None, <<"c1", "c2">>)
                               EXCEPT !.invoice = Invoice(prices, tip, tips)]
    /\ \E a \in {JAbsent, JStr("100"), JStr("abc")}, n \in {JAbsent, JStr("Amy")} :
         payload = JObj([EmptyRequest EXCEPT !.amount = a, !.first_name = n])
    /\ rendered \in {<<>>, <<"h", "i">>}
    /\ ReceiveReady

SpecInvoice == InitInvoice /\ [][NextDispatch]_vars

\* Texts over the eighteen MarkdownV2 specials, a backslash, a letter and a
\* letter outside ASCII, under every parse mode.
InitEscape ==
    /\ \E n \in 0..MaxTextLen :
          raw_text \in [1..n -> {"_", "*", "[", "]", "(", ")", "~", "backtick", ">", "#",
                                "+", "-", "=", "|", "{", "}", ".", "!",
                                "\\", "a", "e-acute"}]
    /\ escape_mode \in {None, "MarkdownV2", "Markdown", "HTML"}
    /\ epc = "idle" /\ escaped_text = <<>>
    /\ test_mode = FALSE
    /\ BotIdle /\ HandlerIdle /\ KeyboardIdle /\ WebhookIdle /\ FormatterIdle

SpecEscape == InitEscape /\ [][Sanitize]_vars

\* Requests to endpoints that share the formatter and configure the labels
\* A or B, with whatever labels an earlier request left on the formatter.
InitConcurrent ==
    /\ reqs \in [1..MaxInFlight ->
                   [labels : {"A", "B"}, rejected : BOOLEAN, chats : 1..2,
                    pc : {"idle"}, seen : {NotFormatted}]]
    /\ formatter_labels \in {"{}", "A", "B"}
    /\ test_mode = FALSE
    /\ BotIdle /\ HandlerIdle /\ KeyboardIdle /\ WebhookIdle /\ EscapeIdle

SpecConcurrent == InitConcurrent /\ [][NextConcurrent]_vars

InitServer == InitEndpoint \/ InitWebhook

NextServer == NextDispatch \/ NextWebhook

SpecServer == InitServer /\ [][NextServer]_vars

(***************************************************************************)
(* Claims about the transport (SpecBot)                                    *)
(***************************************************************************)
InRetryLoop == method \in SendMethods \cup RetryAdminMethods

IsApiError(o) == o.status \notin {200, 429, NetworkError}

\* C1: in _send_with_retry a 429 response is followed by a retry that does
\* not consume an attempt: while every response so far was a 429 the call is
\* still attempting with its attempt counter untouched, and k 429 responses
\* followed by a 200 end the call with the body of that 200.
C1_RateLimitDoesNotConsumeAttempt ==
    InRetryLoop =>
        /\ (log # <<>> /\ \A i \in 1..Len(log) : log[i].out.status = 429)
              => (bpc = "attempting" /\ attempt = 0)
        /\ (/\ log # <<>>
            /\ Last(log).out.status = 200
            /\ \A i \in 1..(Len(log) - 1) : log[i].out.status = 429)
              => (bpc = "returned" /\ ret = Returned(Last(log).out.body))

\* C2: in _send_with_retry a response that is neither 200 nor 429, received
\* at attempt n, is followed by a sleep of 2^n seconds and attempt n+1 when
\* n+1 < max_retries; otherwise nothing is slept and the call raises the
\* error that carries the description of that response ("Unknown error"
\* when the response has none).
C2_ApiErrorBackoffOrFail ==
    InRetryLoop =>
        \A i \in 1..Len(log) :
            IsApiError(log[i].out) =>
                IF log[i].attempt + 1 < max_retries
                THEN /\ log[i].slept = Pow2(log[i].attempt)
                     /\ IF i = Len(log)
                        THEN bpc = "attempting" /\ attempt = log[i].attempt + 1
                        ELSE log[i + 1].attempt = log[i].attempt + 1
                ELSE /\ log[i].slept = NoSleep
                     /\ i = Len(log)
                     /\ bpc = "raised"
                     /\ ret = RaisedSendFailed(
                                  IF log[i].out.description = NoDescription
                                  THEN "Unknown error"
                                  ELSE log[i].out.description)

\* three API errors in a row: sleeps of 1 and 2 seconds, then the failure
C2_Witness ==
    /\ method = "sendMessage" /\ max_retries = 3 /\ Len(log) = 3
    /\ \A i \in 1..3 : IsApiError(log[i].out)
    /\ log[1].slept = 1 /\ log[2].slept = 2
    /\ Last(log).out.description = "chat not found"
    /\ bpc = "raised"

\* C3: in _send_with_retry a network failure at attempt n is followed by a
\* sleep of 2^n seconds and attempt n+1 when n+1 < max_retries; otherwise
\* nothing is slept and the error raised is the network error of that last
\* attempt itself.
C3_NetworkFailureBackoffOrReraise ==
    InRetryLoop =>
        \A i \in 1..Len(log) :
            log[i].out.status = NetworkError =>
                IF log[i].attempt + 1 < max_retries
                THEN /\ log[i].slept = Pow2(log[i].attempt)
                     /\ IF i = Len(log)
                        THEN bpc = "attempting" /\ attempt = log[i].attempt + 1
                        ELSE log[i + 1].attempt = log[i].attempt + 1
                ELSE /\ log[i].slept = NoSleep
                     /\ i = Len(log)
                     /\ bpc = "raised"
                     /\ ret = RaisedClientError(log[i].out.err)

\* two network failures with different errors; the second one is raised
C3_Witness ==
    /\ method = "sendDocument" /\ max_retries = 2 /\ Len(log) = 2
    /\ log[1].out = ClientError("timeout") /\ log[1].slept = 1
    /\ log[2].out = ClientError("refused")
    /\ bpc = "raised" /\ ret = RaisedClientError("refused")

\* C4: in test mode no operation of the bot issues an HTTP request or enters
\* _send_with_retry, and every operation that has returned has returned the
\* canned success response.
C4_TestModeNeverReachesNetwork ==
    test_mode =>
        /\ log = <<>>
        /\ bpc \in {"idle", "returned"}
        /\ bpc = "returned" => ret = Returned(CannedBody(method))

(***************************************************************************)
(* Claims about the dispatcher (SpecDispatch, SpecFanout)                  *)
(***************************************************************************)
\* a payload field holds a non-empty value (field_map is empty here)
Present(f) == f \in DOMAIN payload.v /\ Truthy(payload.v[f])

Priority == <<"invoice", "location", "document", "video", "audio", "voice",
              "media_group", "photo", "text">>

KindPresent(k) ==
    CASE k = "invoice" -> endpoint_config.invoice.set
      [] k = "location" -> Present("location")
      [] k = "document" -> Present("document_url")
      [] k = "video" -> Present("video_url")
      [] k = "audio" -> Present("audio_url")
      [] k = "voice" -> Present("voice_url")
      [] k = "media_group" -> Present("image_urls")
      [] k = "photo" -> Present("image_url")
      [] OTHER -> TRUE

\* the kind of highest priority that is present
HighestKind ==
    Priority[CHOOSE i \in 1..Len(Priority) :
                 /\ KindPresent(Priority[i])
                 /\ \A j \in 1..(i - 1) : ~KindPresent(Priority[j])]

SendMethodOfKind ==
    [invoice |-> "sendInvoice", location |-> "sendLocation",
     document |-> "sendDocument", video |-> "sendVideo", audio |-> "sendAudio",
     voice |-> "sendVoice", media_group |-> "sendMediaGroup",
     photo |-> "sendPhoto", text |-> "sendMessage"]

\* a call that is the text sent ahead of an invoice
IsPreStep(c) == endpoint_config.invoice.set /\ c.method = "sendMessage"

\* the calls that are not invoice pre-steps
MainCalls == SelectSeq(calls, LAMBDA c : ~IsPreStep(c))

\* C5: for each chat the dispatcher calls the send method of exactly one
\* kind, the first present (non-empty) one in the order invoice config >
\* location > document_url > video_url > audio_url > voice_url > image_urls >
\* image_url > text; no send method of a lower kind is called (the text that
\* the invoice kind sends ahead of the invoice is part of that kind), and
\* each result record comes from one call of that method.
C5_HighestPriorityKindOnly ==
    /\ \A i \in 1..Len(calls) :
           \/ calls[i].method = SendMethodOfKind[HighestKind]
           \/ IsPreStep(calls[i])
    /\ \A i \in 1..Len(MainCalls) :
           /\ MainCalls[i].method = SendMethodOfKind[HighestKind]
           /\ MainCalls[i].chat_id = target_chat_ids[i]
    /\ Len(results) = Len(SelectSeq(MainCalls, LAMBDA c : c.ret.kind = "body"))

\* document_url, video_url, image_urls and image_url set: both chats got a document
C5_Witness ==
    /\ Present("document_url") /\ Present("video_url")
    /\ Present("image_urls") /\ Present("image_url")
    /\ ~Present("location") /\ ~endpoint_config.invoice.set
    /\ response.code = 200
    /\ Len(calls) = 2
    /\ calls[1].method = "sendDocument" /\ calls[2].method = "sendDocument"

\* the chat list the claim describes, read off the request and the config
ExpectedChats ==
    LET ids == payload.v["chat_ids"]
        id == payload.v["chat_id"]
    IN IF ids.t = "list" /\ ids.v # <<>> THEN ids.v
       ELSE IF id.t = "str" /\ id.v # "" THEN <<id.v>>
       ELSE (IF endpoint_config.chat_id = None THEN <<>>
             ELSE <<endpoint_config.chat_id>>) \o endpoint_config.chat_ids

\* C6: the target chats are the payload's chat_ids when non-empty, else the
\* payload's chat_id when present, else the endpoint's chat_id followed by its
\* chat_ids; when all are empty the request is answered 400 no_chat_id and no
\* bot method is called.
C6_ChatResolutionOrder ==
    hpc # "idle" =>
        IF ExpectedChats = <<>>
        THEN /\ response.code = 400 /\ response.error = "no_chat_id"
             /\ hpc = "done" /\ calls = <<>>
        ELSE /\ target_chat_ids = ExpectedChats
             /\ \A i \in 1..Len(MainCalls) :
                    MainCalls[i].chat_id = ExpectedChats[i]

\* configured chats used (c4, c5, c6 in that order) after an empty payload list
C6_Witness ==
    /\ payload.v["chat_ids"] = JList(<<>>) /\ payload.v["chat_id"] = JNull
    /\ endpoint_config.chat_id = "c4"
    /\ target_chat_ids = <<"c4", "c5", "c6">>
    /\ response.code = 200
    /\ Len(MainCalls) = 3 /\ MainCalls[3].chat_id = "c6"

\* C7: the chats are served one after the other in list order, and the first
\* failing send ends the request: no call follows it, and the response is a
\* 500 carrying no result records.
C7_AbortOnFirstFailure ==
    /\ \A i \in 1..Len(MainCalls) : MainCalls[i].chat_id = target_chat_ids[i]
    /\ \A i \in 1..Len(calls) :
           IsPreStep(calls[i]) /\ i < Len(calls)
              => calls[i + 1].chat_id = calls[i].chat_id
    /\ \A i \in 1..Len(calls) :
           calls[i].ret.kind # "body" =>
               /\ i = Len(calls)
               /\ hpc = "done"
               /\ response.code = 500
               /\ response.results = <<>>

\* the second of three chats fails after the first was served
C7_Witness ==
    /\ Len(target_chat_ids) = 3
    /\ Len(calls) = 2
    /\ calls[1].ret.kind = "body" /\ calls[2].ret.kind = "ClientError"
    /\ calls[2].chat_id = target_chat_ids[2]
    /\ Len(results) = 1
    /\ response.code = 500

\* C8: a successful dispatch answers status "sent" with one record per target
\* chat, in the order of the chat list, whose message_id is the message_id of
\* the remote response to that chat's send (of the first message for a media
\* group); in test mode it is 0.
C8_OneRecordPerChat ==
    response.code = 200 =>
        /\ response.error = "sent"
        /\ response.results = results
        /\ Len(results) = Len(target_chat_ids)
        /\ Len(MainCalls) = Len(target_chat_ids)
        /\ \A i \in 1..Len(results) :
               /\ results[i].chat_id = target_chat_ids[i]
               /\ MainCalls[i].chat_id = target_chat_ids[i]
               /\ results[i].message_id = MainCalls[i].ret.body.ids[1]
               /\ test_mode => results[i].message_id = 0

\* a media group to two chats, the remote answering lists of two messages
C8_Witness ==
    /\ ~test_mode
    /\ response.code = 200
    /\ Len(results) = 2
    /\ calls[1].method = "sendMediaGroup"
    /\ calls[1].ret.body = GroupBody(<<7, 9>>)
    /\ calls[2].ret.body = GroupBody(<<9, 7>>)
    /\ results[1].message_id = 7 /\ results[2].message_id = 9

\* the formatted body has a character that is not whitespace
BodyNonBlank == \E i \in 1..Len(rendered) : rendered[i] \notin Whitespace

\* C9: for an endpoint with an invoice config, when the body is non-empty
\* after stripping, every sendInvoice comes right after a sendMessage to the
\* same chat that carries the body and no reply markup, and the markup of
\* the endpoint goes with the sendInvoice; when the body is empty or only
\* whitespace, sendInvoice is the only method called.
C9_InvoicePreStep ==
    endpoint_config.invoice.set =>
        \A i \in 1..Len(calls) :
            IF calls[i].method = "sendInvoice"
            THEN /\ calls[i].reply_markup = BuildReplyMarkup(endpoint_config, payload)
                 /\ BodyNonBlank =>
                        /\ i > 1
                        /\ calls[i - 1].method = "sendMessage"
                        /\ calls[i - 1].chat_id = calls[i].chat_id
                        /\ calls[i - 1].ret.kind = "body"
            ELSE /\ BodyNonBlank
                 /\ calls[i].method = "sendMessage"
                 /\ calls[i].text = rendered
                 /\ calls[i].reply_markup = NoMarkup
                 /\ i > 1 => calls[i - 1].method = "sendInvoice"

\* body and pay button: text then invoice for each of the two chats
C9_Witness ==
    /\ endpoint_config.invoice.set /\ endpoint_config.buttons # <<>>
    /\ rendered = <<" ", "h", "i", "\n">>
    /\ response.code = 200
    /\ Len(calls) = 4
    /\ calls[1].method = "sendMessage" /\ calls[1].reply_markup = NoMarkup
    /\ calls[2].method = "sendInvoice"
    /\ calls[2].reply_markup.type = "inline_keyboard"
    /\ calls[3].method = "sendMessage" /\ calls[3].chat_id = "c2"
    /\ calls[4].method = "sendInvoice" /\ calls[4].chat_id = "c2"

\* a blank body: the invoice alone
C9_WitnessBlank ==
    /\ endpoint_config.invoice.set
    /\ rendered = <<" ">>
    /\ Len(calls) = 2
    /\ calls[1].method = "sendInvoice" /\ calls[2].method = "sendInvoice"

(***************************************************************************)
(* Claims about build_inline_keyboard (SpecKeyboard)                       *)
(***************************************************************************)
IsPayOrGame(btn) == BoolTruthy(btn.pay) \/ BoolTruthy(btn.callback_game)

\* C10: build_inline_keyboard raises the validation error whenever a pay or
\* callback_game button sits at a position other than row 0 / index 0,
\* whatever the first button is; a keyboard whose only pay or callback_game
\* button is the first button of the first row is built.
C10_MisplacedPayOrGameRejected ==
    kpc = "done" =>
        /\ (\E p \in Positions(buttons) :
               p # <<1, 1>> /\ IsPayOrGame(buttons[p[1]][p[2]]))
              => kresult.type = "ValueError"
        /\ (/\ buttons # <<>>
            /\ \A p \in Positions(buttons) :
                   IsPayOrGame(buttons[p[1]][p[2]]) => p = <<1, 1>>)
              => kresult.type = "inline_keyboard"

(***************************************************************************)
(* Claims about requests and their failures (SpecServer, SpecDispatch)     *)
(***************************************************************************)
\* the endpoint's keyboard has a pay or callback_game button off row 0 / index 0
KeyboardMisplaced ==
    \E p \in Positions(endpoint_config.buttons) :
        p # <<1, 1>> /\ IsPayOrGame(endpoint_config.buttons[p[1]][p[2]])

\* C11: a request to an endpoint whose keyboard breaks the pay /
\* callback_game placement rule is answered with a 4xx status, never a 5xx,
\* and no bot method is called for it.
C11_KeyboardViolationIs4xx ==
    (hpc = "done" /\ KeyboardMisplaced) =>
        /\ response.code \in 400..499
        /\ calls = <<>>

\* the payload's location field, and whether it holds both coordinates
LocationField == payload.v["location"]
HasCoordinates ==
    /\ LocationField.t = "obj"
    /\ LocationField.v.latitude.t \notin {"absent", "null"}
    /\ LocationField.v.longitude.t \notin {"absent", "null"}

\* C12: with no invoice configured and a location field in the payload, the
\* only method called is sendLocation, and only when latitude and longitude
\* are both there (0 included); when either is missing, the empty object
\* included, the request ends 400 invalid_location without any call, and no
\* other kind of message is sent.
C12_LocationNeedsBothCoordinates ==
    (~endpoint_config.invoice.set /\ LocationField.t = "obj") =>
        /\ \A i \in 1..Len(calls) :
               calls[i].method = "sendLocation" /\ HasCoordinates
        /\ (hpc = "done" /\ ~HasCoordinates) =>
               /\ response.code = 400
               /\ response.error = "invalid_location"

\* the server has an API key (an empty string is no key)
KeyConfigured == api_key # None /\ api_key # ""

\* C13: with an API key configured, a request whose X-API-Key header is
\* missing or different is answered 401 with no chat resolved, no message
\* formatted, no markup built and no bot method called; with no API key
\* configured, no request is answered 401.
C13_ApiKeyChecked ==
    hpc \in {"sending", "done"} =>
        IF KeyConfigured /\ x_api_key # api_key
        THEN /\ hpc = "done"
             /\ response.code = 401 /\ response.error = "invalid_api_key"
             /\ target_chat_ids = <<>> /\ formatted_message = <<>>
             /\ reply_markup = NoMarkup /\ calls = <<>>
        ELSE response.code # 401

\* a request that would have been sent, without the header
C13_Witness ==
    /\ api_key = "secret" /\ x_api_key = None
    /\ endpoint_config.chat_id = "c4" /\ endpoint_config.buttons = <<>>
    /\ hpc = "done" /\ response.code = 401

(***************************************************************************)
(* Claims about the webhook (SpecServer)                                   *)
(***************************************************************************)
\* an update that carries a message with a chat id, and no callback_query
MessageUpdate ==
    /\ wpc # "off" /\ update.t = "obj"
    /\ update.v.callback_query.t = "absent"
    /\ update.v.message.t = "obj"
    /\ update.v.message.v.chat.t = "obj"
    /\ update.v.message.v.chat.v.id.t # "absent"

UpdateText ==
    IF update.v.message.v.text.t = "absent" THEN <<>> ELSE update.v.message.v.text.v

\* the text up to its first whitespace or '@'
LeadingToken ==
    LET ends == {i \in 1..Len(UpdateText) : UpdateText[i] \in Whitespace \cup {"@"}}
    IN IF ends = {} THEN UpdateText
       ELSE SubSeq(UpdateText, 1, (CHOOSE i \in ends : \A j \in ends : i <= j) - 1)

MatchingCommands == {i \in 1..Len(commands) : commands[i].command = LeadingToken}

\* the handler the command goes to: the first in the table that matches
MatchedCommand ==
    commands[CHOOSE i \in MatchingCommands : \A j \in MatchingCommands : i <= j]

\* the response of a handler rendered against the sender
FirstName ==
    IF update.v.message.v.from.t = "obj"
    THEN update.v.message.v.from.v.first_name.v ELSE ""
RenderedResponse(h) ==
    IF h.response = "{{first_name}}" THEN FirstName ELSE h.response

\* the handler's keyboard passes the placement validation
CommandKeyboardBuilds(h) ==
    \A p \in Positions(h.buttons) : p = <<1, 1>> \/ ~IsPayOrGame(h.buttons[p[1]][p[2]])

OneReply(h) ==
    /\ Len(wcalls) = 1
    /\ wcalls[1].method = "sendMessage"
    /\ wcalls[1].chat_id \in {"42", "@chan"}
    /\ wcalls[1].chat_id = (IF update.v.message.v.chat.v.id.t = "num"
                            THEN "42" ELSE update.v.message.v.chat.v.id.v)
    /\ wcalls[1].text = RenderedResponse(h)

\* a message update whose text is a command has been handled
CommandHandled ==
    /\ MessageUpdate /\ wpc = "done"
    /\ UpdateText # <<>> /\ UpdateText[1] = "/"

\* C14 as stated: a command that matches a handler with a non-empty response
\* gets exactly one sendMessage, to the chat of the message, with the response
\* rendered against the user; a command no handler matches gets no call.
C14_CommandReplyOriginal ==
    CommandHandled =>
        IF MatchingCommands = {} THEN wcalls = <<>>
        ELSE (/\ MatchedCommand.response \notin {None, ""}
              /\ CommandKeyboardBuilds(MatchedCommand))
                 => OneReply(MatchedCommand)

\* C14: the command of a message is its text up to the first whitespace or
\* '@', compared exactly and case-sensitively with the handlers in table
\* order.  When the first handler that matches has a response that renders
\* to a non-empty text (and a keyboard that builds), exactly one sendMessage
\* goes to the chat of the message with that text; when no handler matches,
\* or the first that matches has no response or one that renders to the
\* empty text, nothing is called.
C14_CommandReply ==
    CommandHandled =>
        IF MatchingCommands = {} THEN wcalls = <<>>
        ELSE IF MatchedCommand.response \in {None, ""}
                \/ RenderedResponse(MatchedCommand) = ""
        THEN wcalls = <<>>
        ELSE CommandKeyboardBuilds(MatchedCommand) => OneReply(MatchedCommand)

\* "/s@b x" from Amy, answered "Amy" to chat 42
C14_Witness ==
    /\ CommandHandled
    /\ UpdateText = <<"/", "s", "@", "b", " ", "x">>
    /\ commands = <<CommandConfig(<<"/", "s">>, "{{first_name}}", <<>>)>>
    /\ Len(wcalls) = 1 /\ wcalls[1].text = "Amy" /\ wcalls[1].chat_id = "42"
    /\ wcalls[1].ret.kind = "body"
    /\ wresponse = WebhookOk

\* the error responses of an endpoint: status code and error name
StructuredErrors ==
    {<<400, "no_chat_id">>, <<400, "invalid_location">>, <<401, "invalid_api_key">>,
     <<500, "formatter_not_found">>, <<500, "send_failed">>}

\* C15: an endpoint request always ends with the success body or an HTTP
\* error carrying {error, message}, and a webhook update with {ok: true} or
\* {ok: false, error}; an exception raised by an awaited call is answered
\* 500 send_failed (endpoint) or ok = false (webhook) with its text, and
\* never leaves the handler.
C15_ErrorsCaughtAtBoundary ==
    /\ hpc = "done" =>
           \/ response.code = 200 /\ response.error = "sent"
           \/ <<response.code, response.error>> \in StructuredErrors
    /\ \A i \in 1..Len(calls) :
           calls[i].ret.kind # "body" =>
               /\ hpc = "done"
               /\ response.code = 500 /\ response.error = "send_failed"
               /\ response.message = calls[i].ret.msg
    /\ wpc = "done" =>
           \/ wresponse = WebhookOk
           \/ wresponse.ok = FALSE /\ wresponse.error \notin {"<none>", "<uncaught>"}
    /\ \A i \in 1..Len(wcalls) :
           wcalls[i].ret.kind # "body" =>
               /\ wpc = "done"
               /\ wresponse = [ok |-> FALSE, error |-> wcalls[i].ret.msg]

\* a location that is a string: the AttributeError of location.get answered 500
C15_Witness ==
    /\ hpc = "done"
    /\ LocationField = JStr("here") /\ ~endpoint_config.invoice.set
    /\ response.code = 500 /\ response.error = "send_failed"
    /\ response.message = "object has no attribute 'get'"
    /\ calls = <<>>

\* a network failure of the reply to a command: ok = false
C15_WitnessWebhook ==
    /\ wpc = "done" /\ Len(wcalls) = 1
    /\ wcalls[1].ret.kind = "ClientError"
    /\ wresponse = [ok |-> FALSE, error |-> "refused"]

(***************************************************************************)
(* Claims about the retry budget (SpecBot)                                 *)
(***************************************************************************)
AdminMethods == RetryAdminMethods \cup {"getWebhookInfo"}

\* C16: a send method called without max_retries runs with max_retries = 3;
\* setWebhook, deleteWebhook and answerCallbackQuery run with max_retries = 1;
\* these and getWebhookInfo issue at most one HTTP request, after which the
\* call has returned or raised whatever the outcome was.
C16_AdminCallsNeverRetried ==
    /\ (method \in SendMethods /\ max_retries_arg = Omitted) => max_retries = 3
    /\ method \in RetryAdminMethods => max_retries = 1
    /\ method \in AdminMethods =>
           /\ Len(log) <= 1
           /\ Len(log) = 1 => bpc \in {"returned", "raised"}

\* setWebhook answered 429 once: raised, not retried
C16_Witness ==
    /\ method = "setWebhook" /\ Len(log) = 1
    /\ log[1].out.status = 429
    /\ bpc = "raised"

\* a send method with the default, failing on its third request
C16_WitnessDefault ==
    /\ method = "sendMessage" /\ max_retries_arg = Omitted
    /\ Len(log) = 3 /\ bpc = "raised"

(***************************************************************************)
(* Claims about field resolution and the message body (SpecServer)         *)
(***************************************************************************)
\* chat_id has a remap (data.chat in the requests of the model)
ChatIdRemapped == endpoint_config.field_map["chat_id"] # <<>>

\* what the claim makes of chat_id: the value at data.chat, or the top-level
\* chat_id, None standing for the default
ExpectedChatId ==
    IF ChatIdRemapped
    THEN LET d == payload.v["data"]
         IN IF d.t = "obj" /\ d.v.chat.t = "str" THEN d.v.chat.v ELSE None
    ELSE IF payload.v["chat_id"].t = "str" THEN payload.v["chat_id"].v ELSE None

\* C17: get_field resolves a remapped field along its dot path and yields the
\* default, without raising, when a key on the path is missing, a value on
\* the path is not an object or the final value is null, whatever the
\* top-level field of the same name holds; a field that is not remapped is
\* read from the top level of the payload.  Seen on chat_id, whose default
\* leaves the choice of the chat to the endpoint's configuration.
C17_FieldResolution ==
    (hpc \in {"sending", "done"} /\ response.code # 401) =>
        IF ExpectedChatId # None THEN target_chat_ids = <<ExpectedChatId>>
        ELSE IF endpoint_config.chat_id # None
        THEN target_chat_ids = <<endpoint_config.chat_id>>
        ELSE /\ response.code = 400 /\ response.error = "no_chat_id"
             /\ target_chat_ids = <<>>

\* data is a string, chat_id is at the top level: the configured chat is used
C17_Witness ==
    /\ ChatIdRemapped
    /\ payload.v["data"] = JStr("x") /\ payload.v["chat_id"] = JStr("c3")
    /\ target_chat_ids = <<"c4">>
    /\ response.code = 200

\* the endpoint names a template of the table
TemplateInTable == endpoint_config.template \in {"order"}

\* C18: the body is the endpoint's template rendered with the payload when
\* the template table has that name, and what the endpoint's formatter makes
\* of the payload otherwise; when the formatter is needed and not registered
\* the request ends 500 formatter_not_found and no bot method is called.
C18_TemplateElseFormatter ==
    (hpc \in {"sending", "done"} /\ target_chat_ids # <<>>) =>
        IF TemplateInTable
        THEN /\ formatted_message =
                    (IF payload.v["first_name"].t = "str"
                     THEN <<"A", "m", "y">> ELSE <<>>)
             /\ response.error # "formatter_not_found"
             /\ \A i \in 1..Len(calls) : calls[i].text = formatted_message
        ELSE IF endpoint_config.formatter \in {"plain", "markdown"}
        THEN /\ formatted_message = rendered
             /\ response.error # "formatter_not_found"
             /\ \A i \in 1..Len(calls) :
                    calls[i].text \in {formatted_message, NoText}
        ELSE /\ hpc = "done"
             /\ response.code = 500 /\ response.error = "formatter_not_found"
             /\ calls = <<>>

\* the template wins over a formatter that is not registered
C18_Witness ==
    /\ endpoint_config.template = "order" /\ endpoint_config.formatter = "nope"
    /\ rendered = <<"h", "i">>
    /\ response.code = 200
    /\ Len(calls) = 1 /\ calls[1].text = <<"A", "m", "y">>

\* a template name the table lacks and an unknown formatter: 500
C18_WitnessNotFound ==
    /\ endpoint_config.template = "missing" /\ endpoint_config.formatter = "nope"
    /\ response.code = 500 /\ response.error = "formatter_not_found"

(***************************************************************************)
(* Claims about the buttons built (SpecButtons)                            *)
(***************************************************************************)
ActionsIn(out) == {f \in ActionFields : out[f] # Absent}

\* C19: every button of a built keyboard has its text and exactly one of the
\* ten action fields.
C19_ExactlyOneAction ==
    (kpc = "done" /\ kresult.type = "inline_keyboard") =>
        \A r \in 1..Len(kresult.rows) : \A i \in 1..Len(kresult.rows[r]) :
            /\ kresult.rows[r][i].text # Absent
            /\ Cardinality(ActionsIn(kresult.rows[r][i])) = 1

\* an action the chain tests before the switch_inline_query fields
HigherThanSwitch(btn) ==
    \/ btn.url \notin {None, ""} \/ btn.callback_data \notin {None, ""}
    \/ btn.web_app # None \/ btn.login_url # None

\* C20: switch_inline_query and switch_inline_query_current_chat go by
\* presence: set to "" (with no action of higher priority set) the field is
\* in the output with value ""; unset, the output has no such key.
C20_SwitchInlineQueryByPresence ==
    (kpc = "done" /\ kresult.type = "inline_keyboard") =>
        \A r \in 1..Len(buttons) : \A i \in 1..Len(buttons[r]) :
            LET btn == buttons[r][i]
                out == kresult.rows[r][i]
            IN /\ btn.switch_inline_query = None => out.switch_inline_query = Absent
               /\ btn.switch_inline_query_current_chat = None
                      => out.switch_inline_query_current_chat = Absent
               /\ (btn.switch_inline_query = "" /\ ~HigherThanSwitch(btn))
                      => out.switch_inline_query = ""
               /\ (/\ btn.switch_inline_query_current_chat = ""
                   /\ ~HigherThanSwitch(btn)
                   /\ btn.switch_inline_query = None)
                      => out.switch_inline_query_current_chat = ""

\* an empty switch_inline_query next to an empty switch_inline_query_current_chat
C20_Witness ==
    /\ kpc = "done"
    /\ Len(buttons[1]) = 2
    /\ buttons[1][1].switch_inline_query = "" /\ buttons[1][1].url = None
    /\ buttons[1][2].switch_inline_query_current_chat = ""
    /\ buttons[1][2].switch_inline_query = None
    /\ kresult.rows[1][1].switch_inline_query = ""
    /\ kresult.rows[1][2].switch_inline_query_current_chat = ""
    /\ kresult.rows[1][2].switch_inline_query = Absent

\* what the template engine makes of a text of the model under a context object
RenderedUnder(value, ctx) ==
    IF value = "{{first_name}}"
    THEN (IF ctx.v.first_name.t = "str" THEN ctx.v.first_name.v ELSE "")
    ELSE value

\* C21: build_inline_keyboard passes the text and the free-text action field
\* of each button through the template renderer whenever a context object is
\* given, the empty object included, and leaves them literal only when the
\* context is absent (null).  Seen on buttons that are not pay buttons, whose
\* text is rewritten after rendering.
C21_RenderedWheneverContextGiven ==
    (kpc = "done" /\ kresult.type = "inline_keyboard") =>
        \A r \in 1..Len(buttons) : \A i \in 1..Len(buttons[r]) :
            LET btn == buttons[r][i]
                out == kresult.rows[r][i]
            IN ~BoolTruthy(btn.pay) =>
                 IF context.t = "null"
                 THEN /\ out.text = btn.text
                      /\ out.callback_data \in {Absent, btn.callback_data}
                 ELSE /\ out.text = RenderedUnder(btn.text, context)
                      /\ out.callback_data \in
                             {Absent, RenderedUnder(btn.callback_data, context)}

(***************************************************************************)
(* Claims about the reply markup (SpecMarkup)                              *)
(***************************************************************************)
\* an optional field of an output is there exactly when the config sets it
OnlyWhenSet(out, cfg) == (out = Absent) <=> (cfg = None)

\* C22: whatever the config, the output of build_reply_keyboard_remove has
\* remove_keyboard true and the output of build_force_reply has force_reply
\* true; selective and input_field_placeholder are in the output only when
\* the config sets them.
C22_RemoveAndForceAreTrue ==
    /\ reply_markup.type = "remove_keyboard" =>
           /\ reply_markup.remove_keyboard = PyTrue
           /\ OnlyWhenSet(reply_markup.selective,
                          endpoint_config.reply_keyboard_remove.selective)
    /\ reply_markup.type = "force_reply" =>
           /\ reply_markup.force_reply = PyTrue
           /\ OnlyWhenSet(reply_markup.selective, endpoint_config.force_reply.selective)
           /\ OnlyWhenSet(reply_markup.input_field_placeholder,
                          endpoint_config.force_reply.input_field_placeholder)

(***************************************************************************)
(* Claims about the sanitizer (SpecEscape)                                 *)
(***************************************************************************)
\* the characters the claim lists
ListedSpecials == {"_", "*", "[", "]", "(", ")", "~", "backtick", ">", "#", "+", "-",
                   "=", "|", "{", "}", ".", "!"}

\* listed characters among the first i characters of the text
ListedUpTo(i) == Cardinality({j \in 1..i : raw_text[j] \in ListedSpecials})

\* C23: sanitize(text, MarkdownV2) is the text with each occurrence of one of
\* _ * [ ] ( ) ~ ` > # + - = | { } . ! prefixed by exactly one backslash and
\* every other character (a backslash, a character outside ASCII) unchanged
\* and in the same order: character i of the text is character
\* i + (listed characters up to i) of the result, a backslash sits right
\* before it exactly when it is listed, and the result has nothing else.
C23_MarkdownV2Escaping ==
    (epc = "done" /\ escape_mode = "MarkdownV2") =>
        /\ Len(escaped_text) = Len(raw_text) + ListedUpTo(Len(raw_text))
        /\ \A i \in 1..Len(raw_text) :
               /\ escaped_text[i + ListedUpTo(i)] = raw_text[i]
               /\ raw_text[i] \in ListedSpecials
                      => escaped_text[i + ListedUpTo(i) - 1] = "\\"

\* a backslash followed by a dot: the backslash stays single, the dot gets one
C23_Witness ==
    /\ epc = "done" /\ escape_mode = "MarkdownV2"
    /\ raw_text = <<"\\", ".">>
    /\ escaped_text = <<"\\", "\\", ".">>

(***************************************************************************)
(* Claims about the invoice numbers (SpecInvoice)                          *)
(***************************************************************************)
\* the numeric fields the invoice config sets
NumericFields ==
    endpoint_config.invoice.prices
    \o (IF endpoint_config.invoice.max_tip_amount.t = "null" THEN <<>>
        ELSE <<endpoint_config.invoice.max_tip_amount>>)
    \o endpoint_config.invoice.suggested_tip_amounts

\* a template of the model rendered against the payload
RenderedAmount(value) ==
    LET amount == payload.v["amount"]
    IN CASE value = "{{amount}}" -> (IF amount.t = "str" THEN amount.v ELSE "")
         [] value = "{{amount|default('250')}}" ->
                (IF amount.t = "str" THEN amount.v ELSE "250")
         [] OTHER -> value

Integers3 == ("0" :> 0) @@ ("100" :> 100) @@ ("250" :> 250)

\* some template field renders to something that is not an integer
SomeNumberNotInteger ==
    \E i \in 1..Len(NumericFields) :
        /\ NumericFields[i].t = "str"
        /\ RenderedAmount(NumericFields[i].v) \notin DOMAIN Integers3

\* what the claim has a numeric field sent as
ExpectedNumber(a) ==
    IF a.t = "str" THEN JNum(Integers3[RenderedAmount(a.v)]) ELSE a

\* C24: an invoice numeric field (prices[].amount, max_tip_amount,
\* suggested_tip_amounts[]) given as a template string is rendered against
\* the payload and parsed as an integer, and one given as a literal integer
\* is passed through unchanged: when every template renders to an integer,
\* each sendInvoice carries these numbers and the request fails only if a
\* bot call does; when some template does not, the request ends with an
\* error and no sendInvoice is issued.
C24_InvoiceNumbersRenderedAndParsed ==
    endpoint_config.invoice.set =>
        IF SomeNumberNotInteger
        THEN /\ \A i \in 1..Len(calls) : calls[i].method # "sendInvoice"
             /\ hpc = "done" => response.code >= 400
        ELSE /\ \A i \in 1..Len(calls) :
                    calls[i].method = "sendInvoice" =>
                        LET inv == endpoint_config.invoice
                            sent == calls[i].numbers
                        IN /\ Len(sent.prices) = Len(inv.prices)
                           /\ \A k \in 1..Len(inv.prices) :
                                  sent.prices[k] = ExpectedNumber(inv.prices[k])
                           /\ sent.max_tip_amount = ExpectedNumber(inv.max_tip_amount)
                           /\ inv.suggested_tip_amounts # <<>> =>
                                  /\ Len(sent.suggested_tip_amounts.v)
                                        = Len(inv.suggested_tip_amounts)
                                  /\ \A k \in 1..Len(inv.suggested_tip_amounts) :
                                         sent.suggested_tip_amounts.v[k]
                                           = ExpectedNumber(inv.suggested_tip_amounts[k])
             /\ (hpc = "done" /\ response.code # 200) =>
                    (calls # <<>> /\ Last(calls).ret.kind # "body")

\* C27: when dispatch fails because an invoice numeric template renders to
\* a non-integer, no bot method has been called for the request: not even
\* the text that goes ahead of the invoice.
C27_NoCallBeforeNumberFailure ==
    (/\ endpoint_config.invoice.set /\ SomeNumberNotInteger
     /\ hpc = "done" /\ response.code >= 400
     /\ \A i \in 1..Len(calls) : calls[i].ret.kind = "body") =>
        calls = <<>>

(***************************************************************************)
(* More claims about the transport (SpecBot)                               *)
(***************************************************************************)
\* C26: for every max_retries >= 1 and every sequence of remote outcomes
\* (200, 429, other status, network failure, in any mix) _send_with_retry
\* ends, returning a body or raising, after at most max_retries HTTP
\* requests, and every outcome kind advances the one attempt counter: the
\* i-th request is attempt i-1 whatever was answered before, a call still
\* attempting has a request left, and the call has ended once max_retries
\* requests were made.
C26_AtMostMaxRetriesRequests ==
    InRetryLoop =>
        /\ max_retries >= 1
        /\ Len(log) <= max_retries
        /\ \A i \in 1..Len(log) : log[i].attempt = i - 1
        /\ bpc = "attempting" => (attempt = Len(log) /\ Len(log) < max_retries)
        /\ Len(log) = max_retries => bpc \in {"returned", "raised"}
        /\ bpc = "returned" => ret.kind = "body"
        /\ bpc = "raised" => ret.kind \notin {"none", "body"}

\* three requests answered 429, 400 and a network failure: the third ends
\* the call
C26_Witness ==
    /\ InRetryLoop /\ max_retries = 3 /\ Len(log) = 3
    /\ log[1].out.status = 429
    /\ log[2].out.status = 400
    /\ log[3].out.status = NetworkError
    /\ bpc = "raised"

(***************************************************************************)
(* More claims about the reply markup (SpecMarkup)                         *)
(***************************************************************************)
MarkupPriority == <<"buttons", "reply_keyboard", "reply_keyboard_remove",
                    "force_reply">>

MarkupConfigured(k) ==
    CASE k = "buttons" -> endpoint_config.buttons # <<>>
      [] k = "reply_keyboard" -> endpoint_config.reply_keyboard.set
      [] k = "reply_keyboard_remove" -> endpoint_config.reply_keyboard_remove.set
      [] k = "force_reply" -> endpoint_config.force_reply.set

\* the markup the claim describes: that of the first configured source in
\* the priority order, none when the endpoint configures no source
ExpectedMarkup ==
    LET set == {i \in 1..Len(MarkupPriority) : MarkupConfigured(MarkupPriority[i])}
        k == IF set = {} THEN "none"
             ELSE MarkupPriority[CHOOSE i \in set : \A j \in set : i <= j]
    IN CASE k = "buttons" -> BuildInlineKeyboard(endpoint_config.buttons, payload)
         [] k = "reply_keyboard" ->
                build_reply_keyboard_markup(endpoint_config.reply_keyboard, payload)
         [] k = "reply_keyboard_remove" ->
                build_reply_keyboard_remove(endpoint_config.reply_keyboard_remove)
         [] k = "force_reply" ->
                build_force_reply(endpoint_config.force_reply, payload)
         [] OTHER -> NoMarkup

\* the handler went past the build of the markup into the loop over the chats
InFanOut == hpc = "sending" \/ calls # <<>>

\* C29: dispatch builds at most one reply markup per request, chosen by the
\* priority inline buttons > reply_keyboard > reply_keyboard_remove >
\* force_reply among those the endpoint configures; it is built once, before
\* the fan-out (nothing changes it once the loop over the chats has begun),
\* and every chat of the request gets that same markup: no call carries
\* another one, and the calls of one method carry the same.
C29_OneMarkupByPriority ==
    /\ [](InFanOut =>
            /\ reply_markup = ExpectedMarkup
            /\ \A i \in 1..Len(calls) :
                  /\ calls[i].reply_markup \in {NoMarkup, ExpectedMarkup}
                  /\ \A j \in 1..Len(calls) :
                        (calls[i].method = calls[j].method
                         /\ IsPreStep(calls[i]) = IsPreStep(calls[j]))
                           => calls[i].reply_markup = calls[j].reply_markup)
    /\ [][InFanOut => reply_markup' = reply_markup]_vars

\* buttons, reply_keyboard, reply_keyboard_remove and force_reply all
\* configured: both chats got the text with the inline keyboard
C29_Witness ==
    /\ \A i \in 1..Len(MarkupPriority) : MarkupConfigured(MarkupPriority[i])
    /\ response.code = 200
    /\ Len(calls) = 2
    /\ calls[1].method = "sendMessage" /\ calls[1].chat_id = "c1"
    /\ calls[2].method = "sendMessage" /\ calls[2].chat_id = "c2"
    /\ calls[1].reply_markup.type = "inline_keyboard"
    /\ calls[2].reply_markup = calls[1].reply_markup

\* no buttons; reply_keyboard_remove and force_reply configured: both chats
\* got the removal
C29_WitnessRemoveOverForce ==
    /\ ~MarkupConfigured("buttons") /\ ~MarkupConfigured("reply_keyboard")
    /\ MarkupConfigured("reply_keyboard_remove") /\ MarkupConfigured("force_reply")
    /\ response.code = 200
    /\ Len(calls) = 2
    /\ calls[1].reply_markup.type = "remove_keyboard"
    /\ calls[2].reply_markup = calls[1].reply_markup

\* C30: the reply markup built for the request is passed to the send call
\* of the kinds text, document, video, audio, voice, location and invoice,
\* and never to a photo or media group send nor to the text sent ahead of
\* an invoice: an endpoint with buttons that dispatches a photo or a media
\* group sends it without any markup.
C30_MarkupPassedByKind ==
    \A i \in 1..Len(calls) :
        IF IsPreStep(calls[i]) \/ calls[i].method \in {"sendPhoto", "sendMediaGroup"}
        THEN calls[i].reply_markup = NoMarkup
        ELSE /\ calls[i].method \in {"sendMessage", "sendDocument", "sendVideo",
                                     "sendAudio", "sendVoice", "sendLocation",
                                     "sendInvoice"}
             /\ calls[i].reply_markup = reply_markup

\* an endpoint with buttons and a payload with image_url: both chats got the
\* photo, without the keyboard that was built
C30_Witness ==
    /\ endpoint_config.buttons # <<>>
    /\ reply_markup.type = "inline_keyboard"
    /\ response.code = 200
    /\ Len(calls) = 2
    /\ calls[1].method = "sendPhoto" /\ calls[2].method = "sendPhoto"
    /\ calls[1].reply_markup = NoMarkup /\ calls[2].reply_markup = NoMarkup

\* the same with image_urls: one media group per chat, without the keyboard
C30_WitnessMediaGroup ==
    /\ endpoint_config.buttons # <<>>
    /\ reply_markup.type = "inline_keyboard"
    /\ response.code = 200
    /\ calls # <<>>
    /\ \A i \in 1..Len(calls) :
          calls[i].method = "sendMediaGroup" /\ calls[i].reply_markup = NoMarkup

\* the seven kinds that pass it, with buttons configured: every main call
\* carries the keyboard, and the text ahead of the invoice does not
C30_WitnessPassed ==
    /\ endpoint_config.buttons # <<>>
    /\ endpoint_config.invoice.set
    /\ response.code = 200
    /\ Len(calls) = 4
    /\ calls[1].method = "sendMessage" /\ calls[1].reply_markup = NoMarkup
    /\ calls[2].method = "sendInvoice"
    /\ calls[2].reply_markup.type = "inline_keyboard"

(***************************************************************************)
(* More claims about the webhook (SpecServer)                              *)
(***************************************************************************)
\* the update carries a callback query as Telegram sends one (with its id)
\* and the webhook handler has acted on it
CallbackQueryHandled ==
    /\ wpc # "idle"
    /\ update.t = "obj"
    /\ update.v.callback_query.t = "obj"
    /\ update.v.callback_query.v.id.t # "absent"

\* C28: a webhook update carrying a callback_query (with the id Telegram
\* gives it) results in exactly one answerCallbackQuery call, made first:
\* with the response of the first handler whose data equals the query's
\* data exactly (later equal handlers are ignored) and before the POST to
\* that handler's url, if it has one, or with no text when no handler
\* matches; a message in the same update is not processed (no other call).
C28_CallbackAnsweredOnce ==
    CallbackQueryHandled =>
        LET cq == update.v.callback_query.v
            data == IF cq.data.t = "absent" THEN "" ELSE cq.data.v
            equal == {k \in 1..Len(callbacks) : callbacks[k].data = data}
            answers == {i \in 1..Len(wcalls) :
                           wcalls[i].method = "answerCallbackQuery"}
        IN /\ answers = {1}
           /\ wcalls[1].chat_id = cq.id.v
           /\ \A i \in 2..Len(wcalls) : wcalls[i].method = "POST"
           /\ Len(wcalls) <= 2
           /\ equal = {} => (wcalls[1].text = None /\ Len(wcalls) = 1)
           /\ \A k \in equal :
                 (\A j \in equal : k <= j) =>
                    /\ wcalls[1].text = callbacks[k].response
                    /\ Len(wcalls) = 2 =>
                          /\ wcalls[2].chat_id = callbacks[k].url
                          /\ wcalls[1].ret.kind = "body"
                    /\ (wpc = "done" /\ wresponse.ok) =>
                          (Len(wcalls) = 2 <=> callbacks[k].url # None)

\* two handlers with data "buy" after one with "Buy"; the update has the
\* callback "buy" and a /s message: answered "First", then posted to the
\* url of that handler, and nothing sent for the message
C28_Witness ==
    /\ CallbackQueryHandled
    /\ update.v.message.t = "obj"
    /\ Len(callbacks) = 3
    /\ commands # <<>>
    /\ wpc = "done" /\ wresponse.ok
    /\ Len(wcalls) = 2
    /\ wcalls[1].text = "First"
    /\ wcalls[2].method = "POST"

\* no handler matches: answered with no text
C28_WitnessNoMatch ==
    /\ CallbackQueryHandled
    /\ callbacks # <<>>
    /\ wpc = "done" /\ wresponse.ok
    /\ wcalls[1].text = None /\ matched = NoCallback

(***************************************************************************)
(* Claims about concurrent requests (SpecConcurrent)                       *)
(***************************************************************************)
\* C25: whatever the interleaving of the requests at their await points,
\* the labels bound on the shared formatter at the moment format is called
\* for a request are the labels of the endpoint that received the request.
C25_FormatSeesOwnLabels ==
    \A r \in DOMAIN reqs :
        reqs[r].seen # NotFormatted => reqs[r].seen = reqs[r].labels

\* request 1 (labels A) is between two sends when request 2 (labels B) is
\* formatted: each saw its own labels, and the formatter now holds B
C25_Witness ==
    /\ reqs[1].labels = "A" /\ reqs[2].labels = "B"
    /\ reqs[1].pc = "sending" /\ reqs[1].chats = 1
    /\ reqs[2].pc = "sending"
    /\ formatter_labels = "B"
    /\ reqs[1].seen = "A" /\ reqs[2].seen = "B"

=============================================================================
